---- MODULE Spec2Model ----
(***************************************************************************)
(* Progression and task-resolution engine of Solo-levelling-IRL: the judge *)
(* response contract (ai/judge.ts, ai/validation.ts), the stat and XP      *)
(* services, the task life cycle (services/task.service.ts), the penalty   *)
(* service and the daily job (jobs/dailyDecay.job.ts).                     *)
(*                                                                         *)
(* Numbers that may carry a fraction (stat deltas, JSON numbers) are kept  *)
(* in twentieths: the integer n stands for n/20, so 0.05 is 1 and 1 is 20. *)
(* Times are seconds since the midnight the model starts at.               *)
(***************************************************************************)
EXTENDS Integers, Sequences, FiniteSets, TLC

\* ------------------------------------------------------------------ numbers

\* one whole unit, in twentieths
Unit == 20

\* Number.isInteger on a number kept in twentieths
IsInteger(n) == n % Unit = 0

MathRound_HalfDown(n) == (n + Unit \div 2 - 1) \div Unit

\* Math.round: the nearest integer, halves towards +infinity; n in twentieths
MathRound(n) == (n + Unit \div 2) \div Unit

Max(a, b) == IF a >= b THEN a ELSE b

Min(a, b) == IF a <= b THEN a ELSE b

\* ------------------------------------------------------------------ enums

\* models/Task.ts StatType, in the order the services enumerate the stats
VALID_STAT_NAMES == <<"physical", "intelligence", "discipline", "charisma", "confidence", "creativity">>

StatNames == {VALID_STAT_NAMES[i] : i \in 1..Len(VALID_STAT_NAMES)}

Difficulties == {"easy", "medium", "hard", "extreme"}

\* ------------------------------------------------------------------ JSON values
\* A parsed JSON value: t is its JavaScript type; num its value when a number
\* (in twentieths), str when a string, obj its entries (in insertion order)
\* when an object.  t = "absent" stands for a property that is not there.

JNum(n) == [t |-> "number", num |-> n, str |-> "", obj |-> <<>>]

JStr(s) == [t |-> "string", num |-> 0, str |-> s, obj |-> <<>>]

JObj(entries) == [t |-> "object", num |-> 0, str |-> "", obj |-> entries]

JNull == [t |-> "null", num |-> 0, str |-> "", obj |-> <<>>]

JArray == [t |-> "array", num |-> 0, str |-> "", obj |-> <<>>]

JAbsent == [t |-> "absent", num |-> 0, str |-> "", obj |-> <<>>]

\* one entry of an object: key k and a scalar value
JEntry(k, v) == [k |-> k, t |-> v.t, num |-> v.num]

\* the object the oracle is asked for; a property may be absent
JResponse(verdict, xp, statChanges, comment) == [t |-> "object", verdict |-> verdict, xp |-> xp, statChanges |-> statChanges, comment |-> comment]

\* a JSON document that is not an object with properties: null, a number, an array
JOther(t) == [t |-> t, verdict |-> JAbsent, xp |-> JAbsent, statChanges |-> JAbsent, comment |-> JAbsent]

\* ------------------------------------------------------------------ ai/validation.ts

\* statChanges once validated: keys are the property names that are there,
\* d the delta of each stat (in twentieths), 0 for a name that is not there
ToStatChanges(entries) ==
  [keys |-> {entries[i].k : i \in 1..Len(entries)},
   d |-> [s \in StatNames |-> IF \E j \in 1..Len(entries) : entries[j].k = s
                              THEN LET i == CHOOSE j \in 1..Len(entries) : entries[j].k = s IN entries[i].num
                              ELSE 0]]

NoStatChanges == ToStatChanges(<<>>)

\* `!data || typeof data !== 'object'`: an array is an object to typeof
IsObjectData(data) == data.t \in {"object", "array"}

VerdictOk(v) == v.t = "string" /\ v.str \in {"success", "fail"}

XpOk(x) == x.t = "number" /\ x.num >= 0 /\ IsInteger(x.num)

StatChangesIsObject(s) == s.t = "object"

\* a fail verdict has xp 0 and no stat changes
FailConditionsOk_NoXpCheck(xp, entries) == Len(entries) = 0

FailConditionsOk(xp, entries) == xp = 0 /\ Len(entries) = 0

StatEntryOk_AnyNumber(e) == e.k \in StatNames /\ e.t = "number"

StatEntryOk(e) == e.k \in StatNames /\ e.t = "number" /\ IsInteger(e.num)

\* a success verdict has xp other than 0, known stat names, integer deltas
SuccessConditionsOk(xp, entries) == xp # 0 /\ \A i \in 1..Len(entries) : StatEntryOk(entries[i])

CommentOk_NonEmpty(c) == c.t = "string" /\ c.str # ""

\* the comment is there and is a string
CommentOk(c) == c.t = "string"

\* validateJudgeResponse: ok is FALSE where the function throws
validateJudgeResponse(data) ==
  IF ~IsObjectData(data) THEN [ok |-> FALSE]
  ELSE IF data.verdict.t = "absent" \/ ~VerdictOk(data.verdict) THEN [ok |-> FALSE]
  ELSE IF data.xp.t = "absent" \/ ~XpOk(data.xp) THEN [ok |-> FALSE]
  ELSE IF data.statChanges.t = "absent" \/ ~StatChangesIsObject(data.statChanges) THEN [ok |-> FALSE]
  ELSE IF data.verdict.str = "fail" /\ ~FailConditionsOk(data.xp.num, data.statChanges.obj) THEN [ok |-> FALSE]
  ELSE IF data.verdict.str = "success" /\ ~SuccessConditionsOk(data.xp.num, data.statChanges.obj) THEN [ok |-> FALSE]
  ELSE IF data.comment.t = "absent" \/ ~CommentOk(data.comment) THEN [ok |-> FALSE]
  ELSE [ok |-> TRUE,
        value |-> [verdict |-> data.verdict.str,
                   xp |-> data.xp.num \div Unit,
                   statChanges |-> ToStatChanges(data.statChanges.obj),
                   comment |-> data.comment.str]]

\* ------------------------------------------------------------------ ai/judge.ts

DEFAULT_XP_BY_DIFFICULTY_Flat == [easy |-> 20, medium |-> 20, hard |-> 20, extreme |-> 20]

DEFAULT_XP_BY_DIFFICULTY == [easy |-> 20, medium |-> 50, hard |-> 100, extreme |-> 200]

FallbackComment == "Task evaluated using system fallback."

getDeterministicFallback_TaskReward(task) ==
  [verdict |-> "success", xp |-> task.xpReward, statChanges |-> ToStatChanges(<<JEntry(task.targetStat, JNum(Unit))>>), comment |-> FallbackComment]

getDeterministicFallback(task) ==
  [verdict |-> "success", xp |-> DEFAULT_XP_BY_DIFFICULTY[task.difficulty], statChanges |-> ToStatChanges(<<JEntry(task.targetStat, JNum(Unit))>>), comment |-> FallbackComment]

\* What the oracle does on one call: kind "error" is a rejected API call
\* (transport error, timeout), "empty" a completion without content,
\* "unparsable" content that is not JSON, "json" content that parses to data.
OracleReply(kind, data) == [kind |-> kind, data |-> data]

\* the try block of judgeTask: threw is TRUE where it throws
judgeTaskTry(task, evidence, oracle) ==
  IF oracle.kind # "json" THEN [threw |-> TRUE]
  ELSE LET v == validateJudgeResponse(oracle.data)
       IN IF v.ok THEN [threw |-> FALSE, value |-> v.value] ELSE [threw |-> TRUE]

judgeTask_Rethrow(task, evidence, oracle) ==
  LET r == judgeTaskTry(task, evidence, oracle)
  IN IF r.threw THEN [raised |-> oracle.kind = "json", value |-> getDeterministicFallback(task)]
     ELSE [raised |-> FALSE, value |-> r.value]

\* judgeTask: the catch block answers with the fallback; raised is TRUE
\* where the function would reject
judgeTask(task, evidence, oracle) ==
  LET r == judgeTaskTry(task, evidence, oracle)
  IN IF r.threw THEN [raised |-> FALSE, value |-> getDeterministicFallback(task)]
     ELSE [raised |-> FALSE, value |-> r.value]

\* ------------------------------------------------------------------ services/xp.service.ts

Ranks == <<"E", "D", "C", "B", "A", "S", "SS">>

\* NoMax stands for the absent upper bound of rank SS
NoMax == -1

RANK_XP_THRESHOLDS_Overlap ==
  [E |-> [min |-> 0, max |-> 1000], D |-> [min |-> 1000, max |-> 5000],
   C |-> [min |-> 5000, max |-> 15000], B |-> [min |-> 15000, max |-> 40000],
   A |-> [min |-> 40000, max |-> 100000], S |-> [min |-> 100000, max |-> 250000],
   SS |-> [min |-> 250000, max |-> NoMax]]

RANK_XP_THRESHOLDS ==
  [E |-> [min |-> 0, max |-> 999], D |-> [min |-> 1000, max |-> 4999],
   C |-> [min |-> 5000, max |-> 14999], B |-> [min |-> 15000, max |-> 39999],
   A |-> [min |-> 40000, max |-> 99999], S |-> [min |-> 100000, max |-> 249999],
   SS |-> [min |-> 250000, max |-> NoMax]]

\* whether r + 0.5 lies above the square root of 10000 * level^3, that is
\* 10000 * level^3 <= r * (r + 1); both sides are kept as two digits of
\* base 10^6, for r below 10^6 and level below 1000
RoundsUpTo(r, level) ==
  LET cube == level * level * level
      nHi == cube \div 100
      nLo == (cube % 100) * 10000
      r1 == r \div 1000
      r0 == r % 1000
      t == 2 * r1 * r0 * 1000 + r0 * r0 + r
      pHi == r1 * r1 + t \div 1000000
      pLo == t % 1000000
  IN pHi > nHi \/ (pHi = nHi /\ pLo >= nLo)

\* the least r in lo..hi with RoundsUpTo(r, level), found by halving
LeastRound(level, lo, hi) ==
  LET least[a \in Nat, b \in Nat] ==
        IF a >= b THEN a
        ELSE IF RoundsUpTo((a + b) \div 2, level) THEN least[a, (a + b) \div 2]
             ELSE least[(a + b) \div 2 + 1, b]
  IN least[lo, hi]

\* Math.round(100 * Math.pow(level, 1.5)): the integer nearest to the square
\* root of 10000 * level^3
calculateXpRequired(level) == LeastRound(level, 0, 999999)

\* the level at which the loop of calculateLevel stops: the greatest level
\* in lo..hi that is 1 or whose calculateXpRequired is within totalXp
\* (calculateXpRequired rises with the level), found by halving
LevelSearch(lo, hi, totalXp) ==
  LET greatest[a \in Nat, b \in Nat] ==
        IF a >= b THEN a
        ELSE IF totalXp >= calculateXpRequired((a + b + 1) \div 2) THEN greatest[(a + b + 1) \div 2, b]
             ELSE greatest[a, (a + b + 1) \div 2 - 1]
  IN greatest[lo, hi]

\* levels start at 1; the search is exact for a totalXp below 999999, where
\* calculateXpRequired is (level 464 at most)
calculateLevel(totalXp) == LevelSearch(1, 999, totalXp)

RECURSIVE RankSearch(_, _)
\* the first rank, in table order, whose interval holds totalXp
RankSearch(i, totalXp) ==
  LET th == RANK_XP_THRESHOLDS[Ranks[i]]
  IN IF totalXp >= th.min /\ (th.max = NoMax \/ totalXp <= th.max) THEN Ranks[i]
     ELSE RankSearch(i + 1, totalXp)

calculateRank(totalXp) == IF totalXp < 0 THEN "E" ELSE RankSearch(1, totalXp)

\* Math.round((currentProgress / rankRange) * 100), 100 for the rank without
\* a max; the quotient is never half an integer, the ranges being odd
getRankProgress(totalXp) ==
  LET threshold == RANK_XP_THRESHOLDS[calculateRank(totalXp)]
      rankRange == threshold.max - threshold.min
      currentProgress == totalXp - threshold.min
  IN IF threshold.max = NoMax THEN 100
     ELSE (200 * currentProgress + rankRange) \div (2 * rankRange)

\* ------------------------------------------------------------------ services/stat.service.ts

\* per day, in twentieths: -0.2, -0.1, -0.05, -0.1, -0.05, -0.05
DAILY_DECAY_RATES == [discipline |-> -4, physical |-> -2, intelligence |-> -1, confidence |-> -2, charisma |-> -1, creativity |-> -1]

\* the changes object applyDailyDecay builds from the rates
DecayChanges == [keys |-> StatNames, d |-> [s \in StatNames |-> DAILY_DECAY_RATES[s]]]

clampStat_NoClamp(value) == MathRound(value)

\* Math.max(0, Math.min(100, Math.round(value))); value in twentieths
clampStat(value) == Max(0, Min(100, MathRound(value)))

\* `changes.physical || 0`
ChangeOf(changes, s) == changes.d[s]

\* the updatedStats object of applyStatChange, from the row that was read
UpdatedStats(row, changes) == [s \in StatNames |-> clampStat(row[s] * Unit + ChangeOf(changes, s))]

\* ------------------------------------------------------------------ services/task.service.ts

TaskTypes == {"daily", "weekly", "dungeon", "boss"}

TASK_TEMPLATES == [easy |-> <<20, 30>>, medium |-> <<31, 35>>, hard |-> <<36, 40>>, extreme |-> <<50, 60>>]

\* the multipliers of calculateXpReward, in twentieths: 1.0, 1.5, 2.5, 4.0
XpMultipliers == [easy |-> 20, medium |-> 30, hard |-> 50, extreme |-> 80]

calculateXpReward(difficulty, baseXp) == MathRound(baseXp * XpMultipliers[difficulty])

RECURSIVE WeakestFrom(_, _, _)
\* the loop of getWeakestStat: a later stat wins only with a strictly lower value
WeakestFrom(row, i, best) ==
  IF i > Len(VALID_STAT_NAMES) THEN best
  ELSE WeakestFrom(row, i + 1, IF row[VALID_STAT_NAMES[i]] < row[best] THEN VALID_STAT_NAMES[i] ELSE best)

RECURSIVE WeakestFrom_LastWins(_, _, _)
WeakestFrom_LastWins(row, i, best) ==
  IF i > Len(VALID_STAT_NAMES) THEN best
  ELSE WeakestFrom_LastWins(row, i + 1, IF row[VALID_STAT_NAMES[i]] <= row[best] THEN VALID_STAT_NAMES[i] ELSE best)

WeakestOf_LastWins(row) == WeakestFrom_LastWins(row, 1, "physical")

WeakestOf(row) == WeakestFrom(row, 1, "physical")

calculateDifficultyScaling(recentFailures, rank) ==
  IF recentFailures = 0
  THEN IF rank \in {"E", "D"} THEN "easy"
       ELSE IF rank \in {"C", "B"} THEN "medium"
       ELSE IF rank \in {"A", "S"} THEN "hard" ELSE "extreme"
  ELSE IF recentFailures <= 2 THEN (IF rank \in {"E", "D"} THEN "easy" ELSE "medium")
  ELSE IF recentFailures <= 5 THEN "easy"
  ELSE "easy"

\* ------------------------------------------------------------------ services/penalty.service.ts

DIFFICULTY_MULTIPLIERS == [easy |-> 1, medium |-> 2, hard |-> 3, extreme |-> 4]

RECURSIVE SumSeq(_)
SumSeq(q) == IF q = <<>> THEN 0 ELSE Head(q) + SumSeq(Tail(q))

PsiOf_StreakReset(weights) ==
  IF Len(weights) = 0 THEN 0
  ELSE (SumSeq(weights) * (IF Len(weights) > 10 THEN 10 ELSE Len(weights) + 10)) \div 10

\* Math.floor(sum * Math.min(n * 0.1 + 1, 2.0)) for the weights of the n
\* missed tasks of the window; 0 without any
PsiOf(weights) ==
  IF Len(weights) = 0 THEN 0
  ELSE (SumSeq(weights) * Min(Len(weights) + 10, 20)) \div 10

PenaltyBand_Inclusive(psi) ==
  IF psi <= 5 THEN "warning"
  ELSE IF psi <= 10 THEN "stat_decay"
  ELSE IF psi <= 20 THEN "xp_loss"
  ELSE "rank_lock"

\* the band applyPenalty takes for psi
PenaltyBand(psi) ==
  IF psi < 5 THEN "warning"
  ELSE IF psi < 10 THEN "stat_decay"
  ELSE IF psi < 20 THEN "xp_loss"
  ELSE "rank_lock"

\* { discipline: -1, confidence: -0.5 }
PenaltyStatChanges == ToStatChanges(<<JEntry("discipline", JNum(-Unit)), JEntry("confidence", JNum(-(Unit \div 2)))>>)

\* ------------------------------------------------------------------ time

Hour == 60 * 60

Day == 24 * Hour

\* deadline.setHours(23, 59, 59, 999): the last second of the day of t
EndOfDay(t) == (t \div Day) * Day + Day - 1

StartOfDay(t) == (t \div Day) * Day

\* ------------------------------------------------------------------ bounds

\* players in the database
NumPlayers == 2

\* requests to POST /api/tasks/:id/submit, each served by its own handler
NumWorkers == 2

\* runs of the daily job
MaxJobRuns == 1

\* readings of the clock after the first one
MaxClock == 2

Players == 1..NumPlayers

Workers == 1..NumWorkers

\* the daily job, as a process beside the request handlers
JobProc == 0

Procs == {JobProc} \cup Workers

\* the i-th reading of the clock: midnight and 23:00 of each day
ClockAt(i) == (i \div 2) * Day + (IF i % 2 = 1 THEN 23 * Hour ELSE 0)

\* ------------------------------------------------------------------ state

VARIABLES
  now,        \* new Date(), in seconds
  players,    \* table players: id -> [totalXp, level, rank]
  stats,      \* table stats: playerId -> the six stats
  tasks,      \* table tasks: the sequence of rows, the id is the index
  taskLogs,   \* table task_logs: the sequence of rows, the id is the index
  penalties,  \* table penalties: the sequence of rows
  proc,       \* the call each process is in: its position and its locals
  job,        \* the locals of runDailyDecayJob and processPlayerDailyFlow
  judge,      \* one call of judgeTask on its own: its arguments and its result
  calls,      \* the calls made to the stat service on its own, counted
  snap        \* history: the tables as they were when the running pipeline began

db == <<players, stats, tasks, taskLogs, penalties>>

vars == <<now, players, stats, tasks, taskLogs, penalties, proc, job, judge, calls, snap>>

NoVerdict == [verdict |-> "none", xp |-> 0, statChanges |-> NoStatChanges, comment |-> ""]

DefaultStats == [s \in StatNames |-> 50]

\* a process that is in no call
IdleFrame ==
  [pc |-> "idle", taskId |-> 0, playerId |-> 0, evidence |-> "", logId |-> 0,
   verdict |-> NoVerdict, amount |-> 0, instXp |-> 0, instLevel |-> 0, instRank |-> "E",
   changes |-> NoStatChanges, instStats |-> DefaultStats, ret |-> "", onError |-> "",
   fn |-> "", oracle |-> "", psi |-> 0]

\* a request that has been answered: outcome is "w_done" or "w_error"; the
\* frame keeps what was called (fn), what the oracle did, the verdict, and
\* what the xp and stat services were asked to apply
EndFrame(f, outcome) == [IdleFrame EXCEPT !.pc = outcome, !.taskId = f.taskId, !.playerId = f.playerId, !.logId = f.logId, !.amount = f.amount, !.changes = f.changes, !.fn = f.fn, !.oracle = f.oracle, !.verdict = f.verdict, !.psi = f.psi]

IdleJob ==
  [idx |-> 0, queue |-> <<>>, missed |-> {}, psi |-> 0, weakest |-> "physical",
   difficulty |-> "easy", successCount |-> 0, errorCount |-> 0, runs |-> 0,
   attempts |-> [p \in Players |-> 0], generated |-> {}, found |-> {}, judged |-> {}]

IdleJudge == [pc |-> "off", task |-> [difficulty |-> "easy", targetStat |-> "physical", xpReward |-> 0], evidence |-> "", oracle |-> OracleReply("error", JOther("null")), result |-> [raised |-> FALSE, value |-> NoVerdict]]

NoSnap == <<>>

\* the task and the pending log that generateDailyTask leaves for a new player
\* (rank E, no failures, all stats 50) when the quest generator falls back
SeedTask == [type |-> "daily", difficulty |-> "easy", targetStat |-> "physical", xpReward |-> calculateXpReward("easy", TASK_TEMPLATES["easy"][1]), deadline |-> EndOfDay(0)]

SeedLog(p, evidence) == [taskId |-> p, playerId |-> p, status |-> "pending", evidence |-> evidence, aiVerdict |-> "", createdAt |-> 0]

\* the database after the players were created and the daily job ran once;
\* ev is the evidence on each player's log, j the call of judgeTask on its own
InitWith(ev, j) ==
  /\ now = 0
  /\ players = [p \in Players |-> [totalXp |-> 0, level |-> 1, rank |-> "E"]]
  /\ stats = [p \in Players |-> DefaultStats]
  /\ tasks = [p \in Players |-> SeedTask]
  /\ taskLogs = [p \in Players |-> SeedLog(p, ev[p])]
  /\ penalties = <<>>
  /\ proc = [p \in Procs |-> IdleFrame]
  /\ job = IdleJob
  /\ judge = j
  /\ calls = 0
  /\ snap = NoSnap

Init == InitWith([p \in Players |-> ""], IdleJudge)

\* ------------------------------------------------------------------ the oracle, as the requests meet it

\* what the judge oracle may answer to a request: nothing (the fallback
\* applies), a valid fail, a valid success with large stat changes
OracleSmall ==
  {OracleReply("error", JOther("null")),
   OracleReply("json", JResponse(JStr("fail"), JNum(0), JObj(<<>>), JStr("Evidence insufficient."))),
   OracleReply("json", JResponse(JStr("success"), JNum(1000 * Unit), JObj(<<JEntry("physical", JNum(60 * Unit)), JEntry("discipline", JNum(-60 * Unit))>>), JStr("Task completed satisfactorily.")))}

\* ------------------------------------------------------------------ continuations

\* where a process goes when the call it is in returns
EndLabel(p) == IF p = JobProc THEN "j_auto_next" ELSE "w_done"

\* the frame once resolveTask has returned
Returned(p, f) ==
  IF p = JobProc THEN [IdleFrame EXCEPT !.pc = "j_auto_done", !.playerId = f.playerId, !.logId = f.logId, !.onError = "j_rollback"]
  ELSE EndFrame(f, "w_done")

\* the frame once the call named by f.ret goes on after addXp or applyStatChange
Continue(p, f) ==
  IF f.ret = "resolve_after_xp"
  THEN IF f.changes.keys # {} THEN [f EXCEPT !.pc = "sc_read", !.ret = "resolve_end"] ELSE Returned(p, f)
  ELSE IF f.ret = "resolve_end" THEN Returned(p, f)
  ELSE IF f.ret = "return" THEN IdleFrame
  ELSE [f EXCEPT !.pc = f.ret, !.ret = ""]

\* the frame once the call has thrown: the route answers with the error, the
\* job's step 1 logs it and goes on, any other step of the job rolls back
Thrown(p, f) ==
  IF p = JobProc
  THEN [IdleFrame EXCEPT !.pc = f.onError, !.playerId = f.playerId, !.onError = "j_rollback"]
  ELSE EndFrame(f, "w_error")

SetProc(p, f) == proc' = [proc EXCEPT ![p] = f]

\* ------------------------------------------------------------------ POST /api/tasks/:id/submit

\* a request arrives; the handlers are taken in order
StartRequest(w, taskId, playerId) ==
  /\ proc[w].pc = "idle"
  /\ w = 1 \/ proc[w - 1].pc # "idle"
  /\ SetProc(w, [IdleFrame EXCEPT !.pc = "st_find", !.taskId = taskId, !.playerId = playerId,
                                  !.evidence = IF w = 1 THEN "evidence A" ELSE "evidence B",
                                  !.onError = "w_error"])
  /\ UNCHANGED <<now, db, job, judge, calls, snap>>

PendingLogsOf(taskId, playerId) ==
  {i \in 1..Len(taskLogs) : taskLogs[i].taskId = taskId /\ taskLogs[i].playerId = playerId /\ taskLogs[i].status = "pending"}

DeadlinePassed_Unchecked(task) == FALSE

\* `new Date() > task.deadline`
DeadlinePassed(task) == now > task.deadline

NeedsEvidence_Always(log) == TRUE

\* `!existingTaskLog.evidence`
NeedsEvidence(log) == log.evidence = ""

\* where submitTask returns to: the route goes on with judgeAndResolveTask,
\* a caller of submitTask alone has its answer
AfterSubmit(f) == IF f.ret = "" THEN "jr_load" ELSE f.ret

\* submitTask up to the findOne of the pending log
SubmitFind(w) ==
  LET f == proc[w] IN
  /\ f.pc = "st_find"
  /\ IF f.taskId \notin 1..Len(tasks) THEN SetProc(w, Thrown(w, f))
     ELSE IF DeadlinePassed(tasks[f.taskId]) THEN SetProc(w, Thrown(w, f))
     ELSE IF PendingLogsOf(f.taskId, f.playerId) = {} THEN SetProc(w, [f EXCEPT !.pc = "st_create"])
     ELSE \E i \in PendingLogsOf(f.taskId, f.playerId) :
            SetProc(w, [f EXCEPT !.logId = i, !.pc = IF NeedsEvidence(taskLogs[i]) THEN "st_update" ELSE AfterSubmit(f)])
  /\ UNCHANGED <<now, db, job, judge, calls, snap>>

\* existingTaskLog.update({ evidence })
SubmitUpdate(w) ==
  LET f == proc[w] IN
  /\ f.pc = "st_update"
  /\ taskLogs' = [taskLogs EXCEPT ![f.logId].evidence = f.evidence]
  /\ SetProc(w, [f EXCEPT !.pc = AfterSubmit(f)])
  /\ UNCHANGED <<now, players, stats, tasks, penalties, job, judge, calls, snap>>

\* TaskLogModel.create of a pending log with the evidence
SubmitCreate(w) ==
  LET f == proc[w] IN
  /\ f.pc = "st_create"
  /\ taskLogs' = Append(taskLogs, [taskId |-> f.taskId, playerId |-> f.playerId, status |-> "pending", evidence |-> f.evidence, aiVerdict |-> "", createdAt |-> now])
  /\ SetProc(w, [f EXCEPT !.logId = Len(taskLogs) + 1, !.pc = AfterSubmit(f)])
  /\ UNCHANGED <<now, players, stats, tasks, penalties, job, judge, calls, snap>>

\* ------------------------------------------------------------------ judgeAndResolveTask, resolveTask

Judgeable_Pending(log) == log.status = "pending"

Judgeable_WithEvidence(log) == log.evidence # ""

\* the checks of judgeAndResolveTask on the log it has fetched
Judgeable(log) == log.status = "pending" /\ log.evidence # ""

\* the log is fetched and must be pending and carry evidence
JudgeLoad(p) ==
  LET f == proc[p] IN
  /\ f.pc = "jr_load"
  /\ IF ~Judgeable(taskLogs[f.logId])
     THEN SetProc(p, Thrown(p, f))
     ELSE SetProc(p, [f EXCEPT !.pc = "jr_oracle", !.taskId = taskLogs[f.logId].taskId, !.playerId = taskLogs[f.logId].playerId, !.evidence = taskLogs[f.logId].evidence])
  /\ UNCHANGED <<now, db, job, judge, calls, snap>>

\* judgeTask answers, from the oracle or from the fallback
JudgeOracle(p) ==
  LET f == proc[p] IN
  /\ f.pc = "jr_oracle"
  /\ \E o \in OracleSmall :
       SetProc(p, [f EXCEPT !.pc = "rt_status", !.oracle = o.kind, !.verdict = judgeTask(tasks[f.taskId], f.evidence, o).value])
  /\ UNCHANGED <<now, db, job, judge, calls, snap>>

StatusOf_AlwaysCompleted(current, success) == "completed"

StatusOf_KeepTerminal(current, success) == IF current # "pending" THEN current ELSE IF success THEN "completed" ELSE "failed"

\* the status resolveTask writes, whatever the row holds
StatusOf(current, success) == IF success THEN "completed" ELSE "failed"

\* `feedback || (success ? ... : ...)`
VerdictText(v) ==
  IF v.comment # "" THEN v.comment
  ELSE IF v.verdict = "success" THEN "Task completed successfully" ELSE "Task requirements not met"

convertJudgeResponseToResolution_HalfXp(judgeResponse) ==
  [success |-> judgeResponse.verdict = "success", xpAwarded |-> judgeResponse.xp \div 2,
   statChanges |-> judgeResponse.statChanges, feedback |-> judgeResponse.comment]

\* the resolution handed to resolveTask: its xp is the xp of the verdict
convertJudgeResponseToResolution(judgeResponse) ==
  [success |-> judgeResponse.verdict = "success", xpAwarded |-> judgeResponse.xp,
   statChanges |-> judgeResponse.statChanges, feedback |-> judgeResponse.comment]

\* taskLog.update({ status, aiVerdict }); on success addXp is called next
ResolveStatus(p) ==
  LET f == proc[p]
      resolution == convertJudgeResponseToResolution(f.verdict)
      success == resolution.success IN
  /\ f.pc = "rt_status"
  /\ taskLogs' = [taskLogs EXCEPT ![f.logId].status = StatusOf(taskLogs[f.logId].status, success),
                                  ![f.logId].aiVerdict = VerdictText(f.verdict)]
  /\ IF success
     THEN SetProc(p, [f EXCEPT !.pc = "xp_read", !.amount = resolution.xpAwarded, !.changes = resolution.statChanges, !.ret = "resolve_after_xp"])
     ELSE SetProc(p, Returned(p, f))
  /\ UNCHANGED <<now, players, stats, tasks, penalties, job, judge, calls, snap>>

\* ------------------------------------------------------------------ addXp

\* PlayerModel.findByPk; with amount 0 the player is returned as read
XpRead(p) ==
  LET f == proc[p] IN
  /\ f.pc = "xp_read"
  /\ IF f.amount = 0 THEN SetProc(p, Continue(p, f))
     ELSE SetProc(p, [f EXCEPT !.pc = "xp_write", !.instXp = players[f.playerId].totalXp,
                               !.instLevel = players[f.playerId].level, !.instRank = players[f.playerId].rank])
  /\ UNCHANGED <<now, db, job, judge, calls, snap>>

NewTotalXp_NeverBelowZero(totalXp, xpAmount) == Max(0, totalXp + xpAmount)

\* const newTotalXp = player.totalXp + xpAmount
NewTotalXp(totalXp, xpAmount) == totalXp + xpAmount

\* player.update({ totalXp: newTotalXp })
XpWrite(p) ==
  LET f == proc[p] IN
  /\ f.pc = "xp_write"
  /\ players' = [players EXCEPT ![f.playerId].totalXp = NewTotalXp(f.instXp, f.amount)]
  /\ SetProc(p, [f EXCEPT !.pc = "xp_recalc", !.instXp = NewTotalXp(f.instXp, f.amount)])
  /\ UNCHANGED <<now, stats, tasks, taskLogs, penalties, job, judge, calls, snap>>

\* recalculateLevelAndRank: player.update({ level, rank }) from the instance's
\* totalXp; an update that changes nothing of the instance sends no statement
XpRecalc(p) ==
  LET f == proc[p]
      newLevel == calculateLevel(f.instXp)
      newRank == calculateRank(f.instXp) IN
  /\ f.pc = "xp_recalc"
  /\ IF newLevel # f.instLevel \/ newRank # f.instRank
     THEN players' = [players EXCEPT ![f.playerId].level = newLevel, ![f.playerId].rank = newRank]
     ELSE UNCHANGED players
  /\ SetProc(p, Continue(p, f))
  /\ UNCHANGED <<now, stats, tasks, taskLogs, penalties, job, judge, calls, snap>>

\* ------------------------------------------------------------------ applyStatChange

\* StatsModel.findOne, and the throw of 'Stats not found' without a row
ScRead(p) ==
  LET f == proc[p] IN
  /\ f.pc = "sc_read"
  /\ IF f.playerId \in DOMAIN stats
     THEN SetProc(p, [f EXCEPT !.pc = "sc_write", !.instStats = stats[f.playerId]])
     ELSE SetProc(p, Thrown(p, f))
  /\ UNCHANGED <<now, db, job, judge, calls, snap>>

\* stats.update(updatedStats): the six values computed from the row as read;
\* an update that changes nothing of the instance sends no statement
ScWrite(p) ==
  LET f == proc[p]
      updated == UpdatedStats(f.instStats, f.changes) IN
  /\ f.pc = "sc_write"
  /\ IF updated # f.instStats THEN stats' = [stats EXCEPT ![f.playerId] = updated] ELSE UNCHANGED stats
  /\ SetProc(p, Continue(p, f))
  /\ UNCHANGED <<now, players, tasks, taskLogs, penalties, job, judge, calls, snap>>

\* ------------------------------------------------------------------ jobs/dailyDecay.job.ts

RECURSIVE SortedSeq(_)
\* the ids of a set of rows, in ascending order
SortedSeq(ids) ==
  IF ids = {} THEN <<>>
  ELSE LET m == CHOOSE i \in ids : \A j \in ids : i <= j IN <<m>> \o SortedSeq(ids \ {m})

\* findPendingTasksNearDeadline: pending, deadline from now to one hour from now
NearDeadlineLogs(playerId) ==
  {i \in 1..Len(taskLogs) : /\ taskLogs[i].playerId = playerId
                            /\ taskLogs[i].status = "pending"
                            /\ tasks[taskLogs[i].taskId].deadline >= now
                            /\ tasks[taskLogs[i].taskId].deadline <= now + Hour}

OverdueLogs_AnyPlayer(playerId) ==
  {i \in 1..Len(taskLogs) : /\ taskLogs[i].status = "pending"
                            /\ tasks[taskLogs[i].taskId].deadline < now}

\* the rows checkAndMarkMissedTasks finds: pending, deadline before now
OverdueLogs(playerId) ==
  {i \in 1..Len(taskLogs) : /\ taskLogs[i].playerId = playerId
                            /\ taskLogs[i].status = "pending"
                            /\ tasks[taskLogs[i].taskId].deadline < now}

hasCompletedDailyQuestToday_AnyDay(playerId) ==
  \E i \in 1..Len(taskLogs) : /\ taskLogs[i].playerId = playerId
                              /\ taskLogs[i].status = "completed"
                              /\ tasks[taskLogs[i].taskId].type = "daily"

\* hasCompletedDailyQuestToday: a completed log created today of a daily task
hasCompletedDailyQuestToday(playerId) ==
  \E i \in 1..Len(taskLogs) : /\ taskLogs[i].playerId = playerId
                              /\ taskLogs[i].status = "completed"
                              /\ taskLogs[i].createdAt >= StartOfDay(now)
                              /\ taskLogs[i].createdAt <= EndOfDay(now)
                              /\ tasks[taskLogs[i].taskId].type = "daily"

RecentMissedLogs_AllTime(playerId) ==
  {i \in 1..Len(taskLogs) : /\ taskLogs[i].playerId = playerId
                            /\ taskLogs[i].status = "missed"}

\* the missed logs of the last 7 days, as calculatePSI reads them
RecentMissedLogs(playerId) ==
  {i \in 1..Len(taskLogs) : /\ taskLogs[i].playerId = playerId
                            /\ taskLogs[i].status = "missed"
                            /\ taskLogs[i].createdAt >= now - 7 * Day}

RECURSIVE WeightsOf(_)
WeightsOf(ids) ==
  IF ids = {} THEN <<>>
  ELSE LET i == CHOOSE j \in ids : TRUE
       IN <<DIFFICULTY_MULTIPLIERS[tasks[taskLogs[i].taskId].difficulty]>> \o WeightsOf(ids \ {i})

calculatePSI(playerId) == PsiOf(WeightsOf(RecentMissedLogs(playerId)))

\* countRecentFailures over getRecentTaskHistory(playerId, 21)
RecentFailures(playerId) ==
  Cardinality({i \in 1..Len(taskLogs) : /\ taskLogs[i].playerId = playerId
                                        /\ taskLogs[i].createdAt >= now - 21 * Day
                                        /\ taskLogs[i].status \in {"failed", "missed"}})

\* expiresAt of a penalty that does not expire
NoExpiry == -1

\* the row applyPenalty creates for psi
PenaltyRow(playerId, psi) ==
  [playerId |-> playerId, severity |-> psi,
   reason |-> IF PenaltyBand(psi) = "xp_loss" THEN "xp_loss" ELSE IF PenaltyBand(psi) = "rank_lock" THEN "rank_lock" ELSE "missed_task",
   expiresAt |-> IF PenaltyBand(psi) = "xp_loss" THEN now + Day
                 ELSE IF PenaltyBand(psi) = "rank_lock" THEN now + Min(psi \div 5, 30) * Day
                 ELSE NoExpiry]

\* what the quest generator may answer: nothing valid (its fallback applies),
\* or a suggestion of a type, a difficulty and a targetStat of its own
QuestSmall == {[ok |-> FALSE, type |-> "daily", difficulty |-> "easy", targetStat |-> "physical"], [ok |-> TRUE, type |-> "weekly", difficulty |-> "hard", targetStat |-> "creativity"]}

\* ai/quest-generator.ts: the validated suggestion carries the required stat,
\* not the one the reply named
validateQuestSuggestion(data, requiredTargetStat) ==
  [type |-> data.type, difficulty |-> data.difficulty, targetStat |-> requiredTargetStat]

getDeterministicQuestFallback(targetStat, difficulty) ==
  [type |-> "daily", difficulty |-> difficulty, targetStat |-> targetStat]

\* generateQuestSuggestion, and the fallback of generateDailyTask for it
generateQuestSuggestion(data, weakestStat, desiredDifficulty) ==
  IF data.ok THEN validateQuestSuggestion(data, weakestStat)
  ELSE getDeterministicQuestFallback(weakestStat, desiredDifficulty)

\* generateDailyTask: both branches of the conditional are the weakest stat
finalTargetStat(questSuggestion, weakestStat) ==
  IF questSuggestion.targetStat = weakestStat THEN weakestStat ELSE weakestStat

J == proc[JobProc]

SetJob(pc) == proc' = [proc EXCEPT ![JobProc].pc = pc]

\* runDailyDecayJob starts: Player.findAll
JobStart ==
  /\ J.pc = "idle"
  /\ job.runs < MaxJobRuns
  /\ job' = [IdleJob EXCEPT !.runs = job.runs, !.idx = 1]
  /\ SetProc(JobProc, [IdleFrame EXCEPT !.pc = "j_begin", !.onError = "j_rollback"])
  /\ UNCHANGED <<now, db, judge, calls, snap>>

\* processPlayerDailyFlow begins: the transaction, then the pending logs near
\* their deadline
JobBegin ==
  /\ J.pc = "j_begin"
  /\ job' = [job EXCEPT !.queue = SortedSeq(NearDeadlineLogs(job.idx)), !.found = NearDeadlineLogs(job.idx), !.judged = {},
                        !.attempts[job.idx] = @ + 1, !.missed = {}, !.psi = 0]
  /\ snap' = db
  /\ SetProc(JobProc, [IdleFrame EXCEPT !.pc = "j_auto_next", !.playerId = job.idx, !.onError = "j_rollback"])
  /\ UNCHANGED <<now, db, judge, calls>>

\* step 1: judgeAndResolveTask for the next log near its deadline, inside its
\* own try
JobAutoNext ==
  /\ J.pc = "j_auto_next"
  /\ IF job.queue = <<>>
     THEN /\ SetJob("j_decay_check")
          /\ UNCHANGED job
     ELSE /\ SetProc(JobProc, [J EXCEPT !.pc = "jr_load", !.logId = Head(job.queue), !.onError = "j_auto_next"])
          /\ job' = [job EXCEPT !.queue = Tail(job.queue)]
  /\ UNCHANGED <<now, db, judge, calls, snap>>

\* judgeAndResolveTask has returned: "Auto-judged task log ..." is logged
JobAutoDone ==
  /\ J.pc = "j_auto_done"
  /\ job' = [job EXCEPT !.judged = @ \cup {J.logId}]
  /\ SetProc(JobProc, [J EXCEPT !.pc = "j_auto_next", !.logId = 0])
  /\ UNCHANGED <<now, db, judge, calls, snap>>

AfterDecay_Generate == "j_gen_read"

\* what processPlayerDailyFlow awaits once applyDailyDecay has returned
AfterDecay == "j_missed_find"

\* step 2: applyDailyDecay up to the call of applyStatChange
JobDecayCheck ==
  /\ J.pc = "j_decay_check"
  /\ IF hasCompletedDailyQuestToday(J.playerId)
     THEN SetJob(AfterDecay)
     ELSE SetProc(JobProc, [J EXCEPT !.pc = "sc_read", !.changes = DecayChanges, !.ret = AfterDecay])
  /\ UNCHANGED <<now, db, job, judge, calls, snap>>

AfterMissed_Always(missedTasks) == "j_pen_psi"

\* step 4 is taken when missedTasks.length > 0, step 5 follows otherwise
AfterMissed(missedTasks) == IF missedTasks = {} THEN "j_gen_read" ELSE "j_pen_psi"

\* step 3: checkAndMarkMissedTasks finds the overdue pending logs, and returns
\* at once when there are none
JobMissedFind ==
  /\ J.pc = "j_missed_find"
  /\ job' = [job EXCEPT !.missed = OverdueLogs(J.playerId)]
  /\ SetJob(IF OverdueLogs(J.playerId) = {} THEN AfterMissed({}) ELSE "j_missed_update")
  /\ UNCHANGED <<now, db, judge, calls, snap>>

\* TaskLogModel.update({ status: 'missed' }, { where: { id: taskLogIds } })
JobMissedUpdate ==
  /\ J.pc = "j_missed_update"
  /\ taskLogs' = [i \in 1..Len(taskLogs) |-> IF i \in job.missed THEN [taskLogs[i] EXCEPT !.status = "missed"] ELSE taskLogs[i]]
  /\ SetJob(AfterMissed(job.missed))
  /\ UNCHANGED <<now, players, stats, tasks, penalties, job, judge, calls, snap>>

\* step 4: applyMissPenalty computes the PSI and, unless it is 0, calls
\* applyPenalty
JobPsi ==
  LET psi == calculatePSI(J.playerId) IN
  /\ J.pc = "j_pen_psi"
  /\ job' = [job EXCEPT !.psi = psi]
  /\ IF psi = 0 THEN SetJob("j_gen_read")
     ELSE SetProc(JobProc, [J EXCEPT !.pc = "pen_band", !.psi = psi])
  /\ UNCHANGED <<now, db, judge, calls, snap>>

\* applyPenalty(playerId, psi) takes the band of psi: the stat_decay band
\* calls applyStatChange, the xp_loss band calls addXp, then the row is created
PenBand(p) ==
  LET f == proc[p] IN
  /\ f.pc = "pen_band"
  /\ IF PenaltyBand(f.psi) = "stat_decay"
     THEN SetProc(p, [f EXCEPT !.pc = "sc_read", !.changes = PenaltyStatChanges, !.ret = "pen_create"])
     ELSE IF PenaltyBand(f.psi) = "xp_loss"
     THEN SetProc(p, [f EXCEPT !.pc = "xp_read", !.amount = -(2 * f.psi), !.ret = "pen_create"])
     ELSE SetProc(p, [f EXCEPT !.pc = "pen_create"])
  /\ UNCHANGED <<now, db, job, judge, calls, snap>>

\* PenaltyModel.create, and applyPenalty returns the name of the band
PenCreate(p) ==
  LET f == proc[p] IN
  /\ f.pc = "pen_create"
  /\ penalties' = Append(penalties, PenaltyRow(f.playerId, f.psi))
  /\ SetProc(p, IF p = JobProc THEN [f EXCEPT !.pc = "j_gen_read"] ELSE EndFrame(f, "w_done"))
  /\ UNCHANGED <<now, players, stats, tasks, taskLogs, job, judge, calls, snap>>

\* step 5: generateDailyTask reads the weakest stat, the rank and the history
JobGenRead ==
  /\ J.pc = "j_gen_read"
  /\ job' = [job EXCEPT !.weakest = WeakestOf(stats[J.playerId]),
                        !.difficulty = calculateDifficultyScaling(RecentFailures(J.playerId), players[J.playerId].rank)]
  /\ SetJob("j_gen_task")
  /\ UNCHANGED <<now, db, judge, calls, snap>>

\* the quest suggestion (or the fallback for it), then TaskModel.create
JobGenTask ==
  /\ J.pc = "j_gen_task"
  /\ \E q \in QuestSmall :
       LET questSuggestion == generateQuestSuggestion(q, job.weakest, job.difficulty)
           type == questSuggestion.type
           finalDifficulty == questSuggestion.difficulty
       IN \E baseXp \in {TASK_TEMPLATES[finalDifficulty][1], TASK_TEMPLATES[finalDifficulty][2]} :
            tasks' = Append(tasks, [type |-> type, difficulty |-> finalDifficulty, targetStat |-> finalTargetStat(questSuggestion, job.weakest),
                                    xpReward |-> calculateXpReward(finalDifficulty, baseXp), deadline |-> EndOfDay(now)])
  /\ SetProc(JobProc, [J EXCEPT !.pc = "j_gen_log", !.taskId = Len(tasks) + 1])
  /\ UNCHANGED <<now, players, stats, taskLogs, penalties, job, judge, calls, snap>>

\* TaskLogModel.create of the pending log of the new task
JobGenLog ==
  /\ J.pc = "j_gen_log"
  /\ taskLogs' = Append(taskLogs, [taskId |-> J.taskId, playerId |-> J.playerId, status |-> "pending", evidence |-> "", aiVerdict |-> "", createdAt |-> now])
  /\ job' = [job EXCEPT !.generated = @ \cup {J.playerId}]
  /\ SetJob("j_commit")
  /\ UNCHANGED <<now, players, stats, tasks, penalties, judge, calls, snap>>

\* the player the loop of runDailyDecayJob takes next, or its end
NextPlayer == IF job.idx < NumPlayers THEN "j_begin" ELSE "j_finish"

\* transaction.commit(), then successCount++
JobCommit ==
  /\ J.pc = "j_commit"
  /\ job' = [job EXCEPT !.successCount = @ + 1, !.idx = @ + 1]
  /\ SetProc(JobProc, [IdleFrame EXCEPT !.pc = NextPlayer])
  /\ snap' = NoSnap
  /\ UNCHANGED <<now, db, judge, calls>>

\* the rows written on the transaction of processPlayerDailyFlow: no service
\* is handed the transaction, so it holds none and a rollback restores none
JobRollback ==
  /\ J.pc = "j_rollback"
  /\ SetJob("j_catch")
  /\ UNCHANGED <<now, db, job, judge, calls, snap>>

JobCatch_Rethrow == "j_finish"

\* where the catch of the loop in runDailyDecayJob leaves the run
JobCatch_Next == NextPlayer

\* the catch of the loop: errorCount++, on with the next player
JobCatch ==
  /\ J.pc = "j_catch"
  /\ job' = [job EXCEPT !.errorCount = @ + 1, !.idx = @ + 1]
  /\ SetProc(JobProc, [IdleFrame EXCEPT !.pc = JobCatch_Next])
  /\ snap' = NoSnap
  /\ UNCHANGED <<now, db, judge, calls>>

\* the run ends
JobFinish ==
  /\ J.pc = "j_finish"
  /\ job' = [job EXCEPT !.runs = @ + 1]
  /\ SetProc(JobProc, [IdleFrame EXCEPT !.pc = "idle"])
  /\ UNCHANGED <<now, db, judge, calls, snap>>

\* the positions of the job at which a statement is sent to the database
JobDbLabels == {"jr_load", "rt_status", "xp_read", "xp_write", "xp_recalc", "sc_read", "sc_write",
                "j_decay_check", "j_missed_find", "j_missed_update", "j_pen_psi", "pen_create",
                "j_gen_read", "j_gen_task", "j_gen_log"}

\* a statement of the job is rejected by the database
JobDbFail ==
  /\ J.pc \in JobDbLabels
  /\ SetProc(JobProc, Thrown(JobProc, J))
  /\ UNCHANGED <<now, db, job, judge, calls, snap>>

\* time passes to the next reading of the clock
Tick ==
  /\ \E i \in 1..MaxClock : now = ClockAt(i - 1) /\ now' = ClockAt(i)
  /\ UNCHANGED <<db, proc, job, judge, calls, snap>>

\* ------------------------------------------------------------------ specifications

RequestStep(ws) ==
  \E w \in ws :
    \/ \E t \in 1..(Len(tasks) + 1), pl \in Players : StartRequest(w, t, pl)
    \/ SubmitFind(w)
    \/ SubmitUpdate(w)
    \/ SubmitCreate(w)

ServiceStep(ps) ==
  \E p \in ps :
    \/ JudgeLoad(p)
    \/ JudgeOracle(p)
    \/ ResolveStatus(p)
    \/ XpRead(p)
    \/ XpWrite(p)
    \/ XpRecalc(p)
    \/ ScRead(p)
    \/ ScWrite(p)

JobStep ==
  \/ JobStart
  \/ JobBegin
  \/ JobAutoNext
  \/ JobAutoDone
  \/ JobDecayCheck
  \/ JobMissedFind
  \/ JobMissedUpdate
  \/ JobPsi
  \/ PenBand(JobProc)
  \/ PenCreate(JobProc)
  \/ JobGenRead
  \/ JobGenTask
  \/ JobGenLog
  \/ JobCommit
  \/ JobRollback
  \/ JobCatch
  \/ JobFinish
  \/ JobDbFail

Next == RequestStep(Workers) \/ ServiceStep(Workers) \/ Tick

\* the requests and the clock: the handlers interleave at every await
Spec == Init /\ [][Next]_vars

\* the database when the daily job starts: a seeded log may carry evidence
\* that was submitted and not yet judged
InitJob == \E ev \in [Players -> {"", "evidence A"}] : InitWith(ev, IdleJudge)

NextJob == ServiceStep({JobProc}) \/ JobStep \/ Tick

\* the daily job and the clock, no request in flight
SpecJob == InitJob /\ [][NextJob]_vars

\* ------------------------------------------------------------------ the stat service on its own

\* calls made to the stat service on its own
MaxStatCalls == 3

\* the changes its callers hand to applyStatChange: the reward of the
\* fallback, a reward with large deltas, a huge delta, the stat_decay penalty
ChangeSet ==
  {ToStatChanges(<<JEntry("physical", JNum(Unit))>>),
   ToStatChanges(<<JEntry("physical", JNum(60 * Unit)), JEntry("discipline", JNum(-60 * Unit))>>),
   ToStatChanges(<<JEntry("charisma", JNum(-1000 * Unit)), JEntry("creativity", JNum(1000 * Unit))>>),
   PenaltyStatChanges}

\* a caller enters applyStatChange(playerId, changes)
CallApplyStatChange(w, playerId, changes) ==
  /\ proc[w].pc = "idle"
  /\ calls < MaxStatCalls
  /\ calls' = calls + 1
  /\ SetProc(w, [IdleFrame EXCEPT !.pc = "sc_read", !.playerId = playerId, !.changes = changes, !.ret = "return"])
  /\ UNCHANGED <<now, db, job, judge, snap>>

\* a caller enters applyDailyDecay(playerId): null when a daily quest was
\* completed today, applyStatChange with the decay rates otherwise
CallApplyDailyDecay(w, playerId) ==
  /\ proc[w].pc = "idle"
  /\ calls < MaxStatCalls
  /\ calls' = calls + 1
  /\ IF hasCompletedDailyQuestToday(playerId) THEN UNCHANGED proc
     ELSE SetProc(w, [IdleFrame EXCEPT !.pc = "sc_read", !.playerId = playerId, !.changes = DecayChanges, !.ret = "return"])
  /\ UNCHANGED <<now, db, job, judge, snap>>

NextStat ==
  \E w \in Workers :
    \/ \E pl \in Players, ch \in ChangeSet : CallApplyStatChange(w, pl, ch)
    \/ \E pl \in Players : CallApplyDailyDecay(w, pl)
    \/ ScRead(w)
    \/ ScWrite(w)

\* callers of the stat service, interleaved at every await
SpecStat == Init /\ [][NextStat]_vars

\* ------------------------------------------------------------------ judgeTask on its own

VerdictValues == {JAbsent, JStr("success"), JStr("fail"), JStr("maybe"), JNum(Unit)}

\* absent, 0, 30, -5, 1.5, "50"
XpValues == {JAbsent, JNum(0), JNum(30 * Unit), JNum(-5 * Unit), JNum(Unit + Unit \div 2), JStr("50")}

StatChangesValues ==
  {JAbsent, JNull, JArray, JObj(<<>>),
   JObj(<<JEntry("physical", JNum(2 * Unit))>>),
   JObj(<<JEntry("discipline", JNum(-Unit)), JEntry("creativity", JNum(3 * Unit))>>),
   JObj(<<JEntry("invalidStat", JNum(2 * Unit))>>),
   JObj(<<JEntry("physical", JNum(Unit \div 2))>>),
   JObj(<<JEntry("physical", JStr("1"))>>)}

CommentValues == {JAbsent, JStr(""), JStr("Evidence insufficient."), JNum(Unit), JNull}

\* every behaviour of the oracle the model draws from
OracleReplies ==
  {OracleReply(k, JOther("null")) : k \in {"error", "empty", "unparsable"}}
  \cup {OracleReply("json", JOther(t)) : t \in {"null", "number", "string", "array"}}
  \cup {OracleReply("json", JResponse(v, x, sc, c)) : v \in VerdictValues, x \in XpValues, sc \in StatChangesValues, c \in CommentValues}

JudgeTasks == {[difficulty |-> d, targetStat |-> s, xpReward |-> calculateXpReward(d, TASK_TEMPLATES[d][2])] : d \in Difficulties, s \in StatNames}

InitJudge ==
  \E t \in JudgeTasks, ev \in {"evidence A", "evidence B"}, o \in OracleReplies :
    InitWith([p \in Players |-> ""], [IdleJudge EXCEPT !.pc = "call", !.task = t, !.evidence = ev, !.oracle = o])

\* judgeTask runs to its end: it returns its result or rejects
JudgeCall ==
  LET r == judgeTask(judge.task, judge.evidence, judge.oracle) IN
  /\ judge.pc = "call"
  /\ judge' = [judge EXCEPT !.pc = IF r.raised THEN "raised" ELSE "returned", !.result = r]
  /\ UNCHANGED <<now, db, proc, job, calls, snap>>

NextJudge == JudgeCall

\* one call of judgeTask for every task and every behaviour of the oracle
SpecJudge == InitJudge /\ [][NextJudge]_vars

\* ------------------------------------------------------------------ the xp service on its own

\* calls of addXp, one after the other
MaxXpCalls == 2

\* the amounts its callers hand to addXp: the debit of the xp_loss penalty
\* for a PSI of 14, nothing, the fallback reward of an easy task, a reward
\* that crosses a rank
XpAmounts == {-28, 0, 20, 1000}

\* the totalXp the players start with
XpStart == {0, 990}

\* a row of players whose level and rank were derived from totalXp
PlayerRow(totalXp) == [totalXp |-> totalXp, level |-> calculateLevel(totalXp), rank |-> calculateRank(totalXp)]

InitXp ==
  \E xp \in [Players -> XpStart] :
    /\ now = 0
    /\ players = [p \in Players |-> PlayerRow(xp[p])]
    /\ stats = [p \in Players |-> DefaultStats]
    /\ tasks = [p \in Players |-> SeedTask]
    /\ taskLogs = [p \in Players |-> SeedLog(p, "")]
    /\ penalties = <<>>
    /\ proc = [p \in Procs |-> IdleFrame]
    /\ job = IdleJob
    /\ judge = IdleJudge
    /\ calls = 0
    /\ snap = NoSnap

\* the one caller of the services taken on their own
Caller == 1

\* the caller enters addXp(playerId, xpAmount); snap keeps the tables as
\* they are at the call
CallAddXp(playerId, xpAmount) ==
  /\ proc[Caller].pc = "idle"
  /\ calls < MaxXpCalls
  /\ calls' = calls + 1
  /\ snap' = db
  /\ SetProc(Caller, [IdleFrame EXCEPT !.pc = "xp_read", !.fn = "addXp", !.playerId = playerId, !.amount = xpAmount,
                                       !.ret = "w_done", !.onError = "w_error"])
  /\ UNCHANGED <<now, db, job, judge>>

\* the caller has its answer and may call again
CallReturn ==
  /\ proc[Caller].pc \in {"w_done", "w_error"}
  /\ snap' = NoSnap
  /\ SetProc(Caller, IdleFrame)
  /\ UNCHANGED <<now, db, job, judge, calls>>

NextXp ==
  \/ \E pl \in Players, a \in XpAmounts : CallAddXp(pl, a)
  \/ XpRead(Caller)
  \/ XpWrite(Caller)
  \/ XpRecalc(Caller)
  \/ CallReturn

\* addXp called again and again by one caller
SpecXp == InitXp /\ [][NextXp]_vars

\* ------------------------------------------------------------------ the ranks at their thresholds

\* the totalXp the players start with: below zero, and one below each
\* threshold
RankStart == {-1, 999, 4999, 14999, 39999, 99999, 249999}

\* the amounts handed to addXp: one down, one up
RankSteps == {-1, 1}

InitRank ==
  \E xp \in [Players -> RankStart] :
    /\ now = 0
    /\ players = [p \in Players |-> PlayerRow(xp[p])]
    /\ stats = [p \in Players |-> DefaultStats]
    /\ tasks = [p \in Players |-> SeedTask]
    /\ taskLogs = [p \in Players |-> SeedLog(p, "")]
    /\ penalties = <<>>
    /\ proc = [p \in Procs |-> IdleFrame]
    /\ job = IdleJob
    /\ judge = IdleJudge
    /\ calls = 0
    /\ snap = NoSnap

NextRank ==
  \/ \E pl \in Players, a \in RankSteps : CallAddXp(pl, a)
  \/ XpRead(Caller)
  \/ XpWrite(Caller)
  \/ XpRecalc(Caller)
  \/ CallReturn

\* addXp moving the players across the thresholds of the ranks
SpecRank == InitRank /\ [][NextRank]_vars

\* ------------------------------------------------------------------ the daily job over players of uneven stats

\* the stats the players have when the job starts: all equal, one stat above
\* the others, the last stat alone the lowest, two stats tied for the lowest
GenRows ==
  { DefaultStats,
    [DefaultStats EXCEPT !["physical"] = 55],
    [DefaultStats EXCEPT !["creativity"] = 45],
    [DefaultStats EXCEPT !["physical"] = 60, !["intelligence"] = 60, !["discipline"] = 40, !["confidence"] = 40] }

InitGen ==
  /\ now = 0
  /\ players = [p \in Players |-> [totalXp |-> 0, level |-> 1, rank |-> "E"]]
  /\ \E row \in GenRows : stats = [p \in Players |-> row]
  /\ tasks = [p \in Players |-> SeedTask]
  /\ taskLogs = [p \in Players |-> SeedLog(p, "evidence A")]
  /\ penalties = <<>>
  /\ proc = [p \in Procs |-> IdleFrame]
  /\ job = IdleJob
  /\ judge = IdleJudge
  /\ calls = 0
  /\ snap = NoSnap

\* the daily job and the clock, from players whose stats differ
SpecGen == InitGen /\ [][NextJob]_vars

\* ------------------------------------------------------------------ applyStatChange called alone

\* the stats player 1 has at the first call: the defaults, and a row with
\* stats at and next to the ends of the range
DeltaRows ==
  { DefaultStats,
    [DefaultStats EXCEPT !["physical"] = 0, !["intelligence"] = 100, !["discipline"] = 99, !["confidence"] = 1] }

\* the changes of the calls: +0.5 and -0.3 (the test of decimal changes),
\* -0.5 and +0.5 on other stats, +60 and -60, the stat_decay penalty
\* (-1 and -0.5), and no change at all
DeltaSet ==
  { ToStatChanges(<<JEntry("discipline", JNum(Unit \div 2)), JEntry("intelligence", JNum(-6))>>),
    ToStatChanges(<<JEntry("physical", JNum(-(Unit \div 2))), JEntry("intelligence", JNum(Unit \div 2))>>),
    ToStatChanges(<<JEntry("discipline", JNum(60 * Unit)), JEntry("confidence", JNum(-60 * Unit))>>),
    PenaltyStatChanges,
    NoStatChanges }

\* a playerId without a row of stats (99999 in the test)
NoSuchPlayer == NumPlayers + 1

InitDelta ==
  \E row \in DeltaRows :
    /\ now = 0
    /\ players = [p \in Players |-> PlayerRow(0)]
    /\ stats = [p \in Players |-> IF p = 1 THEN row ELSE DefaultStats]
    /\ tasks = [p \in Players |-> SeedTask]
    /\ taskLogs = [p \in Players |-> SeedLog(p, "")]
    /\ penalties = <<>>
    /\ proc = [p \in Procs |-> IdleFrame]
    /\ job = IdleJob
    /\ judge = IdleJudge
    /\ calls = 0
    /\ snap = NoSnap

\* the caller enters applyStatChange(playerId, changes); snap keeps the
\* tables as they are at the call
CallApplyStatChangeAlone(playerId, changes) ==
  /\ proc[Caller].pc = "idle"
  /\ calls < MaxStatCalls
  /\ calls' = calls + 1
  /\ snap' = db
  /\ SetProc(Caller, [IdleFrame EXCEPT !.pc = "sc_read", !.fn = "applyStatChange", !.playerId = playerId,
                                       !.changes = changes, !.ret = "w_done", !.onError = "w_error"])
  /\ UNCHANGED <<now, db, job, judge>>

NextDelta ==
  \/ \E pl \in Players \cup {NoSuchPlayer}, ch \in DeltaSet : CallApplyStatChangeAlone(pl, ch)
  \/ ScRead(Caller)
  \/ ScWrite(Caller)
  \/ CallReturn

\* applyStatChange called again and again by one caller
SpecDelta == InitDelta /\ [][NextDelta]_vars

\* ------------------------------------------------------------------ the loop of calculateLevel

\* the totalXp calculateLevel is called with: below zero, zero, around the
\* xp required by levels 1, 2, 3 and 5, around the thresholds of the ranks
LevelInputs ==
  {-50, 0, 99, 100, 101, 282, 283, 519, 520, 1117, 1118, 999, 1000, 2000, 4999, 5000, 7000,
   14999, 15000, 39999, 40000, 99999, 100000, 249999, 250000}

CannotAfford_OrEqual(totalXp, nextXpRequired) == totalXp <= nextXpRequired

\* `totalXp < nextXpRequired`: the loop breaks
CannotAfford(totalXp, nextXpRequired) == totalXp < nextXpRequired

\* the caller enters calculateLevel(totalXp): level = 1
CallCalculateLevel(totalXp) ==
  /\ proc[Caller].pc = "idle"
  /\ calls < MaxXpCalls
  /\ calls' = calls + 1
  /\ snap' = db
  /\ SetProc(Caller, [IdleFrame EXCEPT !.pc = "lv_loop", !.fn = "calculateLevel", !.instXp = totalXp, !.instLevel = 1])
  /\ UNCHANGED <<now, db, job, judge>>

\* one turn of the while loop: break, or level++
LevelLoop ==
  LET f == proc[Caller] IN
  /\ f.pc = "lv_loop"
  /\ IF CannotAfford(f.instXp, calculateXpRequired(f.instLevel + 1))
     THEN SetProc(Caller, [f EXCEPT !.pc = "w_done"])
     ELSE SetProc(Caller, [f EXCEPT !.instLevel = @ + 1])
  /\ UNCHANGED <<now, db, job, judge, calls, snap>>

NextLevel ==
  \/ \E x \in LevelInputs : CallCalculateLevel(x)
  \/ LevelLoop
  \/ CallReturn

\* calculateLevel called by one caller, its loop taken turn by turn
SpecLevel == InitXp /\ [][NextLevel]_vars

\* ------------------------------------------------------------------ the daily job after a week of missed tasks

\* the hard tasks player 1 has missed on the days before the model starts
MissedBefore == {3, 5}

\* the task of k days ago and its log, marked missed by the job of the next
\* midnight
PastTask(k) == [type |-> "daily", difficulty |-> "hard", targetStat |-> "physical", xpReward |-> calculateXpReward("hard", TASK_TEMPLATES["hard"][1]), deadline |-> EndOfDay(-k * Day)]

PastLog(k) == [taskId |-> NumPlayers + k, playerId |-> 1, status |-> "missed", evidence |-> "", aiVerdict |-> "", createdAt |-> -k * Day]

\* the database after h missed days of player 1: the penalty is the one the
\* job of the last midnight has created for the PSI of those h tasks
InitPenalty ==
  \E h \in MissedBefore, ev \in {"", "evidence A"} :
    /\ now = 0
    /\ players = [p \in Players |-> PlayerRow(IF p = 1 THEN 990 ELSE 0)]
    /\ stats = [p \in Players |-> DefaultStats]
    /\ tasks = [p \in Players |-> SeedTask] \o [k \in 1..h |-> PastTask(k)]
    /\ taskLogs = [p \in Players |-> SeedLog(p, IF p = 1 THEN ev ELSE "")] \o [k \in 1..h |-> PastLog(k)]
    /\ penalties = <<PenaltyRow(1, PsiOf([k \in 1..h |-> DIFFICULTY_MULTIPLIERS["hard"]]))>>
    /\ proc = [p \in Procs |-> IdleFrame]
    /\ job = IdleJob
    /\ judge = IdleJudge
    /\ calls = 0
    /\ snap = NoSnap

\* the daily job for a player with a week of missed tasks behind
SpecPenalty == InitPenalty /\ [][NextJob]_vars

isRankLocked_AnyReason(playerId) ==
  \E i \in 1..Len(penalties) : /\ penalties[i].playerId = playerId
                               /\ penalties[i].expiresAt > now

\* isRankLocked: a rank_lock penalty of the player that has not expired
isRankLocked(playerId) ==
  \E i \in 1..Len(penalties) : /\ penalties[i].playerId = playerId
                               /\ penalties[i].reason = "rank_lock"
                               /\ penalties[i].expiresAt > now

\* ------------------------------------------------------------------ applyDailyDecay day after day

\* the days on which the flows of the players call applyDailyDecay
MaxDecayDays == 5

\* what player 1 has completed before the first call: nothing, a daily task
\* logged today, a daily task logged yesterday, a weekly task logged today
DecayHistories == {"none", "today", "yesterday", "weekly"}

\* the task of the completed log
DoneTask(h) ==
  [SeedTask EXCEPT !.type = IF h = "weekly" THEN "weekly" ELSE "daily",
                   !.deadline = EndOfDay(IF h = "yesterday" THEN -Day ELSE 0)]

\* a log that resolveTask has completed
DoneLog(h) ==
  [taskId |-> NumPlayers + 1, playerId |-> 1, status |-> "completed", evidence |-> "evidence A",
   aiVerdict |-> "Task completed successfully", createdAt |-> IF h = "yesterday" THEN -Day ELSE 0]

InitDecay ==
  \E h \in DecayHistories :
    /\ now = 0
    /\ players = [p \in Players |-> PlayerRow(0)]
    /\ stats = [p \in Players |-> DefaultStats]
    /\ tasks = [p \in Players |-> SeedTask] \o (IF h = "none" THEN <<>> ELSE <<DoneTask(h)>>)
    /\ taskLogs = [p \in Players |-> SeedLog(p, "")] \o (IF h = "none" THEN <<>> ELSE <<DoneLog(h)>>)
    /\ penalties = <<>>
    /\ proc = [p \in Procs |-> IdleFrame]
    /\ job = IdleJob
    /\ judge = IdleJudge
    /\ calls = 0
    /\ snap = NoSnap

\* the day of the clock, counted from the first
DayOf(t) == t \div Day

\* the flow of playerId of today calls applyDailyDecay(playerId): null when
\* a daily quest was completed today, applyStatChange with the decay rates
\* otherwise; job.attempts counts the flows of each player
CallApplyDailyDecayToday(playerId) ==
  /\ proc[Caller].pc = "idle"
  /\ DayOf(now) < MaxDecayDays
  /\ job.attempts[playerId] = DayOf(now)
  /\ job' = [job EXCEPT !.attempts[playerId] = @ + 1]
  /\ calls' = calls + 1
  /\ snap' = db
  /\ IF hasCompletedDailyQuestToday(playerId)
     THEN SetProc(Caller, [IdleFrame EXCEPT !.pc = "w_done", !.fn = "applyDailyDecay", !.playerId = playerId])
     ELSE SetProc(Caller, [IdleFrame EXCEPT !.pc = "sc_read", !.fn = "applyDailyDecay", !.playerId = playerId,
                                            !.changes = DecayChanges, !.ret = "w_done", !.onError = "w_error"])
  /\ UNCHANGED <<now, db, judge>>

\* the next day begins once every player has had the flow of today
NextDay ==
  /\ proc[Caller].pc = "idle"
  /\ DayOf(now) + 1 < MaxDecayDays
  /\ \A p \in Players : job.attempts[p] = DayOf(now) + 1
  /\ now' = now + Day
  /\ UNCHANGED <<db, proc, job, judge, calls, snap>>

NextDecay ==
  \/ \E p \in Players : CallApplyDailyDecayToday(p)
  \/ ScRead(Caller)
  \/ ScWrite(Caller)
  \/ CallReturn
  \/ NextDay

\* applyDailyDecay called for every player once a day
SpecDecay == InitDecay /\ [][NextDecay]_vars

\* ------------------------------------------------------------------ the penalty service on its own

\* calls of the penalty service, one after the other
MaxPenaltyCalls == 2

\* the PSI its callers hand to applyPenalty: both sides of 5, 10 and 20,
\* a lock of 5 days and a lock that would exceed 30 days
PsiSet == {0, 4, 5, 9, 10, 19, 20, 25, 200}

\* the days at which the clock is read: the creation, the expiry of an
\* xp_loss, of the shortest lock, of a lock of 5 days, of the longest lock,
\* and the day after
PenaltyDays == <<0, 1, 4, 5, 30, 31>>

\* the age in days of the hard task player 1 has missed (0: none missed):
\* inside the 7 days calculatePSI looks back, at their edge, outside them;
\* the job that marked it missed has created the warning for its PSI
MissedAges == {0, 1, 7, 8}

InitPen ==
  \E k \in MissedAges :
    /\ now = 0
    /\ players = [p \in Players |-> PlayerRow(0)]
    /\ stats = [p \in Players |-> DefaultStats]
    /\ tasks = [p \in Players |-> SeedTask] \o (IF k = 0 THEN <<>> ELSE <<PastTask(k)>>)
    /\ taskLogs = [p \in Players |-> SeedLog(p, "")] \o (IF k = 0 THEN <<>> ELSE <<[PastLog(k) EXCEPT !.taskId = NumPlayers + 1]>>)
    /\ penalties = IF k = 0 THEN <<>> ELSE <<PenaltyRow(1, PsiOf(<<DIFFICULTY_MULTIPLIERS["hard"]>>))>>
    /\ proc = [p \in Procs |-> IdleFrame]
    /\ job = IdleJob
    /\ judge = IdleJudge
    /\ calls = 0
    /\ snap = NoSnap

\* the caller enters a function of the penalty service with the frame f
CallPenalty(f) ==
  /\ proc[Caller].pc = "idle"
  /\ calls < MaxPenaltyCalls
  /\ calls' = calls + 1
  /\ snap' = db
  /\ SetProc(Caller, f)

\* applyPenalty(playerId, psi) alone
CallApplyPenalty(playerId, psi) ==
  /\ CallPenalty([IdleFrame EXCEPT !.pc = "pen_band", !.fn = "applyPenalty", !.playerId = playerId, !.psi = psi, !.onError = "w_error"])
  /\ UNCHANGED <<now, db, job, judge>>

\* applyMissPenalty(playerId) alone: calculatePSI, 'none' for a PSI of 0,
\* applyPenalty otherwise
CallApplyMissPenalty(playerId) ==
  LET psi == calculatePSI(playerId) IN
  /\ CallPenalty([IdleFrame EXCEPT !.pc = IF psi = 0 THEN "w_done" ELSE "pen_band", !.fn = "applyMissPenalty",
                                   !.playerId = playerId, !.psi = psi, !.onError = "w_error"])
  /\ UNCHANGED <<now, db, job, judge>>

Expired_Null(row) == row.expiresAt < now

\* `expiresAt < new Date()`: a row without expiresAt does not match
Expired(row) == row.expiresAt # NoExpiry /\ row.expiresAt < now

\* cleanupExpiredPenalties(): one destroy statement, the number of rows
\* deleted is returned
CallCleanupExpiredPenalties ==
  LET kept == SelectSeq(penalties, LAMBDA row : ~Expired(row)) IN
  /\ CallPenalty([IdleFrame EXCEPT !.pc = "w_done", !.fn = "cleanupExpiredPenalties", !.amount = Len(penalties) - Len(kept)])
  /\ penalties' = kept
  /\ UNCHANGED <<now, players, stats, tasks, taskLogs, job, judge>>

\* time passes between two calls, to the next day at which the clock is read
PenaltyTick ==
  /\ proc[Caller].pc = "idle"
  /\ \E i \in 1..(Len(PenaltyDays) - 1) : now = PenaltyDays[i] * Day /\ now' = PenaltyDays[i + 1] * Day
  /\ UNCHANGED <<db, proc, job, judge, calls, snap>>

NextPen ==
  \/ \E pl \in Players, psi \in PsiSet : CallApplyPenalty(pl, psi)
  \/ \E pl \in Players : CallApplyMissPenalty(pl)
  \/ CallCleanupExpiredPenalties
  \/ PenBand(Caller)
  \/ PenCreate(Caller)
  \/ XpRead(Caller)
  \/ XpWrite(Caller)
  \/ XpRecalc(Caller)
  \/ ScRead(Caller)
  \/ ScWrite(Caller)
  \/ CallReturn
  \/ PenaltyTick

\* the penalty service called again and again by one caller
SpecPen == InitPen /\ [][NextPen]_vars

\* ------------------------------------------------------------------ calculatePSI over windows of missed tasks

\* the most missed tasks a player has in the window: one more than the 10
\* from which the streak factor stays at 2.0
MaxMissed == 11

\* how many tasks of each difficulty the player has missed
MissedCounts == {c \in [Difficulties -> 0..MaxMissed] : c["easy"] + c["medium"] + c["hard"] + c["extreme"] <= MaxMissed}

\* the difficulties of the missed tasks, in the order of their rows
MissedSeq(c) ==
  [k \in 1..(c["easy"] + c["medium"] + c["hard"] + c["extreme"]) |->
     IF k <= c["easy"] THEN "easy"
     ELSE IF k <= c["easy"] + c["medium"] THEN "medium"
     ELSE IF k <= c["easy"] + c["medium"] + c["hard"] THEN "hard" ELSE "extreme"]

\* player 1 has missed the tasks of c, all of yesterday, and, when old, a
\* hard task 8 days ago
InitPsi ==
  \E c \in MissedCounts, old \in BOOLEAN :
    LET m == MissedSeq(c) IN
    /\ now = 0
    /\ players = [p \in Players |-> PlayerRow(0)]
    /\ stats = [p \in Players |-> DefaultStats]
    /\ tasks = [p \in Players |-> SeedTask] \o [k \in 1..Len(m) |-> [PastTask(1) EXCEPT !.difficulty = m[k]]]
                 \o (IF old THEN <<PastTask(8)>> ELSE <<>>)
    /\ taskLogs = [p \in Players |-> SeedLog(p, "")] \o [k \in 1..Len(m) |-> [PastLog(1) EXCEPT !.taskId = NumPlayers + k]]
                    \o (IF old THEN <<[PastLog(8) EXCEPT !.taskId = NumPlayers + Len(m) + 1]>> ELSE <<>>)
    /\ penalties = <<>>
    /\ proc = [p \in Procs |-> IdleFrame]
    /\ job = IdleJob
    /\ judge = IdleJudge
    /\ calls = 0
    /\ snap = NoSnap

\* calculatePSI(playerId) alone: one query, the PSI is returned
CallCalculatePSI(playerId) ==
  /\ CallPenalty([IdleFrame EXCEPT !.pc = "w_done", !.fn = "calculatePSI", !.playerId = playerId, !.psi = calculatePSI(playerId)])
  /\ UNCHANGED <<now, db, job, judge>>

NextPsi ==
  \/ \E pl \in Players : CallCalculatePSI(pl)
  \/ CallReturn

\* calculatePSI called by one caller for players with missed tasks
SpecPsi == InitPsi /\ [][NextPsi]_vars

\* ------------------------------------------------------------------ the task service on its own

\* calls of the task service, one after the other
MaxTaskCalls == 2

\* the difficulty of the tasks the players start with
TaskStart == {"easy", "extreme"}

InitTask ==
  \E ev \in [Players -> {"", "evidence A"}], d \in TaskStart :
    /\ now = 0
    /\ players = [p \in Players |-> PlayerRow(0)]
    /\ stats = [p \in Players |-> DefaultStats]
    /\ tasks = [p \in Players |-> [SeedTask EXCEPT !.difficulty = d, !.xpReward = calculateXpReward(d, TASK_TEMPLATES[d][1])]]
    /\ taskLogs = [p \in Players |-> SeedLog(p, ev[p])]
    /\ penalties = <<>>
    /\ proc = [p \in Procs |-> IdleFrame]
    /\ job = IdleJob
    /\ judge = IdleJudge
    /\ calls = 0
    /\ snap = NoSnap

\* the caller enters fn with the frame f; snap keeps the tables as they are
\* at the call
CallTask(f) ==
  /\ proc[Caller].pc = "idle"
  /\ calls < MaxTaskCalls
  /\ calls' = calls + 1
  /\ snap' = db
  /\ SetProc(Caller, f)
  /\ UNCHANGED <<now, db, job, judge>>

\* POST /api/tasks/:id/submit: submitTask, then judgeAndResolveTask
CallRoute(taskId, playerId) ==
  CallTask([IdleFrame EXCEPT !.pc = "st_find", !.fn = "route", !.taskId = taskId, !.playerId = playerId,
                             !.evidence = "evidence B", !.onError = "w_error"])

\* submitTask(taskId, playerId, evidence) alone
CallSubmitTask(taskId, playerId) ==
  CallTask([IdleFrame EXCEPT !.pc = "st_find", !.fn = "submitTask", !.taskId = taskId, !.playerId = playerId,
                             !.evidence = "evidence B", !.ret = "w_done", !.onError = "w_error"])

\* judgeAndResolveTask(taskLogId) alone
CallJudgeAndResolveTask(logId) ==
  CallTask([IdleFrame EXCEPT !.pc = "jr_load", !.fn = "judgeAndResolveTask", !.logId = logId, !.onError = "w_error"])

\* the resolutions resolveTask is handed: what judgeTask may answer
ResolveVerdicts(task) == {judgeTask(task, "", o).value : o \in OracleSmall}

\* resolveTask(taskLog, resolution) alone, on a log that was fetched
CallResolveTask(logId, verdict) ==
  CallTask([IdleFrame EXCEPT !.pc = "rt_status", !.fn = "resolveTask", !.logId = logId, !.taskId = taskLogs[logId].taskId,
                             !.playerId = taskLogs[logId].playerId, !.verdict = verdict, !.onError = "w_error"])

\* time passes between two calls
TickBetweenCalls == proc[Caller].pc = "idle" /\ Tick

NextTask ==
  \/ \E t \in 1..(Len(tasks) + 1), pl \in Players : CallRoute(t, pl)
  \/ \E t \in 1..(Len(tasks) + 1), pl \in Players : CallSubmitTask(t, pl)
  \/ \E i \in 1..Len(taskLogs) : CallJudgeAndResolveTask(i)
  \/ \E i \in 1..Len(taskLogs) : \E v \in ResolveVerdicts(tasks[taskLogs[i].taskId]) : CallResolveTask(i, v)
  \/ SubmitFind(Caller)
  \/ SubmitUpdate(Caller)
  \/ SubmitCreate(Caller)
  \/ ServiceStep({Caller})
  \/ CallReturn
  \/ TickBetweenCalls

\* the task service called again and again by one caller
SpecTask == InitTask /\ [][NextTask]_vars

\* the steps of the handler that is running: the database and the oracle
\* answer (the oracle at least with an error or a timeout), and the event
\* loop then runs the continuation
HandlerStep ==
  \/ SubmitFind(Caller)
  \/ SubmitUpdate(Caller)
  \/ SubmitCreate(Caller)
  \/ ServiceStep({Caller})

NextRoute ==
  \/ \E t \in 1..(Len(tasks) + 1), pl \in Players : CallRoute(t, pl)
  \/ HandlerStep
  \/ CallReturn
  \/ TickBetweenCalls

\* requests to the submit route, one after the other, each running on to
\* its end
SpecRoute == InitTask /\ [][NextRoute]_vars /\ WF_vars(HandlerStep)

\* ------------------------------------------------------------------ properties of judgeTask

JudgeReturned == judge.pc = "returned"

JudgeResult == judge.result.value

\* C8: judgeTask never rejects, and what it returns is well formed: the verdict
\* is success or fail; a fail carries xp 0 and no stat changes; a success
\* carries xp above 0 and stat changes whose keys are valid stat names and
\* whose values are integers.
C8_VerdictWellFormed ==
  /\ judge.pc # "raised"
  /\ JudgeReturned =>
       /\ JudgeResult.verdict \in {"success", "fail"}
       /\ JudgeResult.verdict = "fail" => JudgeResult.xp = 0 /\ JudgeResult.statChanges.keys = {}
       /\ JudgeResult.verdict = "success" =>
            /\ JudgeResult.xp > 0
            /\ JudgeResult.statChanges.keys \subseteq StatNames
            /\ \A s \in StatNames : IsInteger(JudgeResult.statChanges.d[s])

\* a reply that says fail and still awards 30 xp has been answered by a verdict
C8_Witness ==
  /\ JudgeReturned
  /\ judge.oracle.kind = "json"
  /\ judge.oracle.data.verdict = JStr("fail")
  /\ judge.oracle.data.xp = JNum(30 * Unit)
  /\ JudgeResult.verdict = "success"

\* the reply was not usable: the call failed, or its content did not pass validation
ReplyRejected == judgeTaskTry(judge.task, judge.evidence, judge.oracle).threw

\* C9: whenever the reply of the oracle is rejected or there is none, the
\* verdict returned is exactly: success, xp 20 / 50 / 100 / 200 for difficulty
\* easy / medium / hard / extreme, +1 on the target stat of the task and on
\* no other stat, and the fixed comment.
C9_FallbackExact ==
  JudgeReturned /\ ReplyRejected =>
    /\ JudgeResult.verdict = "success"
    /\ JudgeResult.xp = CASE judge.task.difficulty = "easy" -> 20
                          [] judge.task.difficulty = "medium" -> 50
                          [] judge.task.difficulty = "hard" -> 100
                          [] judge.task.difficulty = "extreme" -> 200
    /\ JudgeResult.statChanges.keys = {judge.task.targetStat}
    /\ \A s \in StatNames : JudgeResult.statChanges.d[s] = IF s = judge.task.targetStat THEN Unit ELSE 0
    /\ JudgeResult.comment = "Task evaluated using system fallback."

\* a reply with an unknown stat name for an extreme task on charisma was replaced
C9_Witness ==
  /\ JudgeReturned
  /\ judge.oracle.kind = "json"
  /\ judge.oracle.data.verdict = JStr("success")
  /\ judge.oracle.data.statChanges = JObj(<<JEntry("invalidStat", JNum(2 * Unit))>>)
  /\ judge.task.difficulty = "extreme"
  /\ judge.task.targetStat = "charisma"
  /\ JudgeResult.xp = 200

\* the reply is an object whose comment is the empty string
EmptyCommentReply ==
  /\ judge.oracle.kind = "json"
  /\ judge.oracle.data.t = "object"
  /\ judge.oracle.data.comment = JStr("")

\* the reply passes validation once its comment is replaced by a text
ValidButForComment ==
  validateJudgeResponse([judge.oracle.data EXCEPT !.comment = JStr("Evidence insufficient.")]).ok

\* C10 as stated: a reply whose comment is the empty string is invalid and is
\* replaced by the fallback verdict.
C10_EmptyCommentReplaced ==
  JudgeReturned /\ EmptyCommentReply => JudgeResult = getDeterministicFallback(judge.task)

\* C10 as the code has it: a reply whose comment is absent or is not a string
\* is replaced by the fallback verdict; a reply whose comment is the empty
\* string and whose verdict, xp and stat changes are valid is accepted and
\* returned with its own verdict, xp and empty comment.
C10_CommentContract ==
  JudgeReturned /\ judge.oracle.kind = "json" /\ judge.oracle.data.t = "object" =>
    /\ judge.oracle.data.comment.t # "string" => JudgeResult = getDeterministicFallback(judge.task)
    /\ EmptyCommentReply /\ ValidButForComment =>
         /\ JudgeResult.comment = ""
         /\ JudgeResult.verdict = judge.oracle.data.verdict.str
         /\ JudgeResult.xp * Unit = judge.oracle.data.xp.num
         /\ JudgeResult.statChanges = ToStatChanges(judge.oracle.data.statChanges.obj)

\* a fail without xp and with an empty comment came back as a fail
C10_Witness ==
  /\ JudgeReturned
  /\ EmptyCommentReply
  /\ judge.oracle.data.verdict = JStr("fail")
  /\ JudgeResult.verdict = "fail"
  /\ JudgeResult.comment = ""

\* ------------------------------------------------------------------ properties of the stat service

\* C5: in every state each of the six stats of every player is an integer
\* from 0 to 100.
C5_StatsInRange == \A p \in Players : \A s \in StatNames : stats[p][s] \in 0..100

\* two calls have been answered and left a stat at each end of the range
C5_Witness ==
  /\ calls >= 2
  /\ \A w \in Workers : proc[w].pc = "idle"
  /\ \E p \in Players : stats[p]["physical"] = 100 /\ stats[p]["discipline"] = 0

\* ------------------------------------------------------------------ properties of the daily job

\* C3: when a step of a player's pipeline fails, every change the pipeline
\* made for that player is undone: the database is what it was when the
\* pipeline began.
C3_RollbackRestores == J.pc = "j_catch" => db = snap

\* C4: in one run of the daily job the pipeline of every player is started
\* exactly once; a pipeline that fails is counted and neither keeps another
\* player from being processed through task generation nor ends the run.
C4_EveryPlayerOnce ==
  /\ \A p \in Players : job.attempts[p] <= 1
  /\ J.pc = "j_finish" =>
       /\ \A p \in Players : job.attempts[p] = 1
       /\ job.successCount + job.errorCount = NumPlayers
       /\ Cardinality(job.generated) = job.successCount
       /\ \A p \in job.generated :
            \E i \in 1..Len(taskLogs) :
              taskLogs[i].playerId = p /\ taskLogs[i].taskId > NumPlayers

\* the pipeline of player 1 failed and player 2 has been given its task
C4_Witness ==
  /\ J.pc = "j_finish"
  /\ job.errorCount = 1
  /\ job.generated = {2}

\* ------------------------------------------------------------------ properties of overlapping requests

\* C1: the status of a task log only moves from pending to completed, failed
\* or missed; once it is one of these it never changes again.
C1_StatusFinal ==
  [][\A i \in 1..Len(taskLogs) :
       taskLogs[i].status # "pending" => taskLogs'[i].status = taskLogs[i].status]_vars

\* C2: in every state there is at most one pending task log for a task and a
\* player, also when submissions for the same task and player overlap.
C2_OnePendingLog ==
  \A t \in 1..Len(tasks) : \A p \in Players : Cardinality(PendingLogsOf(t, p)) <= 1

\* C6: in every state the rank and the level stored for a player are
\* calculateRank and calculateLevel of the totalXp stored for that player.
C6_RankLevelDerived ==
  \A p \in Players :
    /\ players[p].rank = calculateRank(players[p].totalXp)
    /\ players[p].level = calculateLevel(players[p].totalXp)

\* every request has been answered
AllAnswered == \A w \in Workers : proc[w].pc \in {"idle", "w_done", "w_error"}

RECURSIVE XpCredited(_, _)
\* the xp the requests ws asked addXp to add to player p
XpCredited(p, ws) ==
  IF ws = {} THEN 0
  ELSE LET w == CHOOSE x \in ws : TRUE
       IN (IF proc[w].playerId = p THEN proc[w].amount ELSE 0) + XpCredited(p, ws \ {w})

RECURSIVE AppliedInSomeOrder(_, _)
\* the rows that applying the stat changes of the requests ws one after the
\* other, in some order, makes of row
AppliedInSomeOrder(row, ws) ==
  IF ws = {} THEN {row}
  ELSE UNION {AppliedInSomeOrder(UpdatedStats(row, proc[w].changes), ws \ {w}) : w \in ws}

\* C7: when two resolutions for the same player overlap, no update is lost:
\* once both are answered the totalXp of the player is the sum of what they
\* added and the stats are those of applying their changes one after the other.
C7_NoLostUpdate ==
  AllAnswered =>
    \A p \in Players :
      /\ players[p].totalXp = XpCredited(p, Workers)
      /\ stats[p] \in AppliedInSomeOrder(DefaultStats, {w \in Workers : proc[w].playerId = p /\ proc[w].changes.keys # {}})

\* ------------------------------------------------------------------ properties of the xp service

\* the table players as it was when the call in progress began
SnapPlayers == snap[1]

\* a call of fn by the caller has come to its end
CallEnded(fn) == proc[Caller].fn = fn /\ proc[Caller].pc \in {"w_done", "w_error"}

C14_NegativeRejected ==
  CallEnded("addXp") /\ proc[Caller].amount < 0 =>
    /\ proc[Caller].pc = "w_error"
    /\ players = SnapPlayers

\* ------------------------------------------------------------------ properties of the task service

SnapStats == snap[2]

SnapLogs == snap[4]

\* the call of the caller has come to its end and had reached resolveTask
ResolveEnded == proc[Caller].pc \in {"w_done", "w_error"} /\ proc[Caller].verdict.verdict # "none"

\* C11: resolveTask with a fail verdict sets the log to failed and leaves
\* totalXp, level, rank and the six stats of the player as they were; with a
\* success verdict it sets the log to completed, adds exactly the xp of the
\* verdict to totalXp and applies exactly the stat changes of the verdict
\* (each stat held within 0..100); no other player is touched.
C11_ResolveFrame ==
  ResolveEnded =>
    LET f == proc[Caller]
        p == f.playerId
        v == f.verdict IN
    /\ f.pc = "w_done"
    /\ \A q \in Players \ {p} : players[q] = SnapPlayers[q] /\ stats[q] = SnapStats[q]
    /\ v.verdict = "fail" =>
         /\ taskLogs[f.logId].status = "failed"
         /\ players[p] = SnapPlayers[p]
         /\ stats[p] = SnapStats[p]
    /\ v.verdict = "success" =>
         /\ taskLogs[f.logId].status = "completed"
         /\ players[p].totalXp = SnapPlayers[p].totalXp + v.xp
         /\ \A s \in StatNames :
              stats[p][s] = Max(0, Min(100, SnapStats[p][s] + v.statChanges.d[s] \div Unit))

\* resolveTask was called with a success of 1000 xp, +60 physical and -60
\* discipline and has returned
C11_Witness ==
  /\ ResolveEnded
  /\ proc[Caller].fn = "resolveTask"
  /\ proc[Caller].verdict.xp = 1000
  /\ taskLogs[proc[Caller].logId].status = "completed"
  /\ stats[proc[Caller].playerId]["physical"] = 100
  /\ stats[proc[Caller].playerId]["discipline"] = 0

\* the call of the caller is a request to the submit route
RouteCall == proc[Caller].fn = "route"

\* the request has been answered
RouteEnded == RouteCall /\ proc[Caller].pc \in {"w_done", "w_error"}

\* the request is running and submitTask has accepted its evidence
RouteAccepted == RouteCall /\ proc[Caller].logId # 0 /\ proc[Caller].pc \notin {"w_done", "w_error"}

\* what C12 asks of a request that has been answered
RouteOutcome ==
  RouteEnded /\ proc[Caller].logId # 0 =>
    /\ proc[Caller].pc = "w_done"
    /\ proc[Caller].oracle = "error" =>
         LET log == taskLogs[proc[Caller].logId]
             task == tasks[log.taskId]
             p == log.playerId IN
         /\ log.status = "completed"
         /\ stats[p][task.targetStat] = Min(100, SnapStats[p][task.targetStat] + 1)
         /\ players[p].totalXp = SnapPlayers[p].totalXp + (CASE task.difficulty = "easy" -> 20
                                                              [] task.difficulty = "medium" -> 50
                                                              [] task.difficulty = "hard" -> 100
                                                              [] task.difficulty = "extreme" -> 200)

\* C12: a request to the submit route whose evidence submitTask accepts
\* (the task exists, its deadline has not passed) always comes to its end
\* and is answered without an error; when the oracle was unavailable the log
\* is completed, the target stat of the task is one higher (at most 100)
\* and totalXp is higher by the fallback xp of the difficulty of the task.
C12_FallbackResolves ==
  /\ []RouteOutcome
  /\ RouteAccepted ~> (RouteEnded /\ proc[Caller].pc = "w_done" /\ taskLogs[proc[Caller].logId].status # "pending")

\* a request judged by the fallback has been answered for a player whose
\* target stat was 100 already
C12_Witness ==
  /\ RouteEnded
  /\ proc[Caller].pc = "w_done"
  /\ proc[Caller].oracle = "error"
  /\ taskLogs[proc[Caller].logId].status = "completed"
  /\ SnapStats[proc[Caller].playerId]["physical"] = 100
  /\ stats[proc[Caller].playerId]["physical"] = 100
  /\ tasks[proc[Caller].taskId].difficulty = "extreme"
  /\ players[proc[Caller].playerId].totalXp = SnapPlayers[proc[Caller].playerId].totalXp + 200

\* the caller is in a call that runs submitTask
SubmitCall == proc[Caller].fn \in {"submitTask", "route"}

\* C17: submitTask fails when the task does not exist or when now is later
\* than the deadline of the task; it then creates no log and changes the
\* status and the evidence of no log (no table is written at all).
C17_SubmitRejects ==
  LET f == proc[Caller] IN
  (SubmitCall /\ (f.taskId \notin 1..Len(tasks) \/ now > tasks[f.taskId].deadline))
    => /\ f.pc \in {"st_find", "w_error"}
       /\ f.logId = 0
       /\ db = snap

\* submitTask has failed for a task that exists and whose deadline has passed
C17_Witness ==
  /\ CallEnded("submitTask")
  /\ proc[Caller].pc = "w_error"
  /\ proc[Caller].taskId \in 1..Len(tasks)
  /\ now > tasks[proc[Caller].taskId].deadline
  /\ taskLogs = SnapLogs

\* the logs pending for the task and the player when the call was made
SnapPending(taskId, playerId) ==
  {i \in 1..Len(SnapLogs) : SnapLogs[i].taskId = taskId /\ SnapLogs[i].playerId = playerId /\ SnapLogs[i].status = "pending"}

\* submitTask called alone for a (task, player) that has a pending log
\* returns that log, creates no log, attaches the evidence of the call only
\* if the log held none, and leaves evidence already stored, and every other
\* log, as it was
SubmitAloneIdempotent ==
  LET f == proc[Caller] IN
  (CallEnded("submitTask") /\ f.pc = "w_done" /\ SnapPending(f.taskId, f.playerId) # {})
    => /\ Len(taskLogs) = Len(SnapLogs)
       /\ f.logId \in SnapPending(f.taskId, f.playerId)
       /\ \A i \in 1..Len(SnapLogs) :
            taskLogs[i] = IF i = f.logId /\ SnapLogs[i].evidence = ""
                          THEN [SnapLogs[i] EXCEPT !.evidence = "evidence B"]
                          ELSE SnapLogs[i]

\* C18: submit is idempotent while a log is pending: no step of a submit
\* creates another log for the (task, player) of a pending log, and no step
\* overwrites evidence that a pending log already holds.
C18_SubmitIdempotent ==
  [][\A i \in 1..Len(taskLogs) :
       taskLogs[i].status = "pending"
         => /\ taskLogs[i].evidence # "" => taskLogs'[i].evidence = taskLogs[i].evidence
            /\ \A j \in (Len(taskLogs) + 1)..Len(taskLogs') :
                 ~(taskLogs'[j].taskId = taskLogs[i].taskId /\ taskLogs'[j].playerId = taskLogs[i].playerId)]_vars

\* C19: judgeAndResolveTask on a log that is not pending, or that has no
\* evidence, fails without calling the oracle and without changing the log,
\* the totalXp of the player or any stat (no table is written at all).
C19_JudgeRejects ==
  LET f == proc[Caller] IN
  (f.fn = "judgeAndResolveTask" /\ (SnapLogs[f.logId].status # "pending" \/ SnapLogs[f.logId].evidence = ""))
    => /\ f.pc \in {"jr_load", "w_error"}
       /\ f.oracle = ""
       /\ f.verdict = NoVerdict
       /\ db = snap

\* judgeAndResolveTask has failed on a log with evidence that an earlier
\* call had resolved
C19_Witness ==
  /\ CallEnded("judgeAndResolveTask")
  /\ proc[Caller].pc = "w_error"
  /\ SnapLogs[proc[Caller].logId].status = "completed"
  /\ SnapLogs[proc[Caller].logId].evidence # ""
  /\ db = snap

\* ------------------------------------------------------------------ properties of checkAndMarkMissedTasks

\* C20: checkAndMarkMissedTasks(player) finds exactly the logs of that player
\* that are pending and whose task has a deadline earlier than now, writing
\* nothing while it looks; its update sets exactly those logs to missed and
\* leaves every other log (of other players, not yet overdue, or resolved
\* already) and every other table as it was; that set is what it returns.
C20_MarkMissedExact ==
  [][/\ (proc[JobProc].pc = "j_missed_find" /\ proc'[JobProc].pc \in {"j_missed_update", "j_gen_read"})
          => /\ job'.missed = {i \in 1..Len(taskLogs) : /\ taskLogs[i].playerId = proc[JobProc].playerId
                                                        /\ taskLogs[i].status = "pending"
                                                        /\ tasks[taskLogs[i].taskId].deadline < now}
             /\ (proc'[JobProc].pc = "j_gen_read") = (job'.missed = {})
             /\ db' = db
     /\ (proc[JobProc].pc = "j_missed_update" /\ proc'[JobProc].pc = "j_pen_psi")
          => /\ Len(taskLogs') = Len(taskLogs)
             /\ \A i \in 1..Len(taskLogs) :
                  taskLogs'[i] = IF i \in job.missed THEN [taskLogs[i] EXCEPT !.status = "missed"] ELSE taskLogs[i]
             /\ job'.missed = job.missed
             /\ <<players, stats, tasks, penalties>>' = <<players, stats, tasks, penalties>>]_vars

\* the overdue log of the player in hand has been marked missed, while the
\* overdue log of another player is pending still
C20_Witness ==
  /\ proc[JobProc].pc = "j_pen_psi"
  /\ job.missed # {}
  /\ \A i \in job.missed : taskLogs[i].status = "missed" /\ taskLogs[i].playerId = proc[JobProc].playerId
  /\ \E k \in 1..Len(taskLogs) : /\ taskLogs[k].playerId # proc[JobProc].playerId
                                 /\ taskLogs[k].status = "pending"
                                 /\ tasks[taskLogs[k].taskId].deadline < now

\* ------------------------------------------------------------------ properties of xp and rank under penalties

\* C15: totalXp never decreases: in every step of resolutions, penalties and
\* runs of the daily job the totalXp of every player stays or grows.
C15_XpNeverDecreases ==
  [][\A p \in Players : players'[p].totalXp >= players[p].totalXp]_vars

\* the place of a rank in the order E, D, C, B, A, S, SS
RankIndex(rank) == CHOOSE i \in 1..Len(Ranks) : Ranks[i] = rank

\* C16: while a player has a rank_lock penalty that has not expired, no step
\* raises the rank of that player.
C16_NoRankUpWhileLocked ==
  [][\A p \in Players : isRankLocked(p) => RankIndex(players'[p].rank) <= RankIndex(players[p].rank)]_vars

\* ------------------------------------------------------------------ properties of the steps of processPlayerDailyFlow

\* step 1 of the flow of the player in hand is over and step 2 not begun
AfterStep1 == proc[JobProc].pc = "j_decay_check"

ServiceLabels == {"jr_load", "jr_oracle", "rt_status", "xp_read", "xp_write", "xp_recalc", "sc_read", "sc_write"}

\* the step of processPlayerDailyFlow a frame of the job is in: 0 the
\* transaction is opened, 1 auto-resolve, 2 decay, 3 missed-marking,
\* 4 penalty, 5 task generation, 6 commit, 7 rollback and catch, 8 outside
FlowStep(f) ==
  IF f.pc = "j_begin" THEN 0
  ELSE IF f.pc \in {"j_auto_next", "j_auto_done"} \/ (f.pc \in ServiceLabels /\ f.onError = "j_auto_next") THEN 1
  ELSE IF f.pc = "j_decay_check" \/ (f.pc \in ServiceLabels /\ f.ret = "j_missed_find") THEN 2
  ELSE IF f.pc \in {"j_missed_find", "j_missed_update"} THEN 3
  ELSE IF f.pc \in {"j_pen_psi", "pen_band", "pen_create"} \/ (f.pc \in ServiceLabels /\ f.ret = "pen_create") THEN 4
  ELSE IF f.pc \in {"j_gen_read", "j_gen_task", "j_gen_log"} THEN 5
  ELSE IF f.pc = "j_commit" THEN 6
  ELSE IF f.pc \in {"j_rollback", "j_catch"} THEN 7
  ELSE 8

\* the steps of one flow follow one another: a step goes on, or the next
\* step begins (the penalty is left out when nothing was missed), or, from
\* step 2 on, an error ends the flow with a rollback; tasks and new logs are
\* created in step 5 only
StepsInOrder ==
  LET a == FlowStep(proc[JobProc])
      b == FlowStep(proc'[JobProc]) IN
  /\ a \in 0..5 => \/ b = a
                   \/ b = a + 1
                   \/ a = 3 /\ b = 5 /\ job'.missed = {}
                   \/ a \in 2..5 /\ b = 7
  /\ a = 7 => b \in {7, 0, 8}
  /\ (tasks' # tasks \/ Len(taskLogs') # Len(taskLogs)) => a = 5

DecayResult(f) == IF f.changes = NoStatChanges THEN "null" ELSE "stats"

\* the completed logs of daily tasks the player had at the call
SnapDailyDone(playerId) ==
  {i \in 1..Len(SnapLogs) : /\ SnapLogs[i].playerId = playerId
                            /\ SnapLogs[i].status = "completed"
                            /\ tasks[SnapLogs[i].taskId].type = "daily"}

\* C23: applyDailyDecay returns null and leaves the six stats as they were
\* when the player has a completed log of a daily task created on the
\* current calendar day; when the only such logs were created on earlier
\* days (or there is none) it returns the stats row after applyStatChange
\* with the decay rates, each stat being clampStat(stat + rate).
C23_DecaySkippedToday ==
  LET f == proc[Caller]
      today == {i \in SnapDailyDone(f.playerId) : DayOf(SnapLogs[i].createdAt) = DayOf(now)} IN
  (CallEnded("applyDailyDecay") /\ f.pc = "w_done")
    => IF today # {}
       THEN DecayResult(f) = "null" /\ db = snap
       ELSE /\ DecayResult(f) = "stats"
            /\ \A s \in StatNames : stats[f.playerId][s] = clampStat(SnapStats[f.playerId][s] * Unit + DAILY_DECAY_RATES[s])
            /\ \A q \in Players \ {f.playerId} : stats[q] = SnapStats[q]

\* the decay was applied for a player whose daily completion is of yesterday
C23_Witness ==
  /\ CallEnded("applyDailyDecay")
  /\ proc[Caller].pc = "w_done"
  /\ DecayResult(proc[Caller]) = "stats"
  /\ \E i \in SnapDailyDone(proc[Caller].playerId) : DayOf(SnapLogs[i].createdAt) = DayOf(now) - 1

\* C24: decay below 1 a day accumulates: a player whose decay was never
\* suppressed and who started from the default 50 has, after the decay of 5
\* consecutive days (5 times -0.2), a discipline of 49 or less.
C24_DecayAccumulates ==
  \A p \in Players :
    (job.attempts[p] >= 5 /\ proc[Caller].pc = "idle" /\ \A i \in 1..Len(taskLogs) : taskLogs[i].playerId = p => taskLogs[i].status # "completed")
      => stats[p]["discipline"] <= 49

\* ------------------------------------------------------------------ properties of the penalty service

SnapPenalties == snap[5]

\* the call has added one row to penalties and has left the older rows
OneRowAdded == Len(penalties) = Len(SnapPenalties) + 1 /\ SubSeq(penalties, 1, Len(SnapPenalties)) = SnapPenalties

\* C25: applyPenalty(player, psi) takes one band for every integer psi >= 0:
\* warning below 5, stat_decay from 5 to 9, xp_loss from 10 to 19, rank_lock
\* from 20; it creates exactly one row, of the player and with severity psi,
\* and applies the effect of that band only: none; discipline -1 and
\* confidence -0.5 through clampStat; totalXp - 2 * psi and an expiry after
\* 24 hours; an expiry after min(floor(psi / 5), 30) days. No other player,
\* task or log is touched.
C25_PenaltyLadder ==
  LET f == proc[Caller]
      p == f.playerId
      psi == f.psi
      row == penalties[Len(penalties)]
      decayed == [SnapStats[p] EXCEPT !["discipline"] = clampStat(@ * Unit - Unit),
                                      !["confidence"] = clampStat(@ * Unit - Unit \div 2)] IN
  (CallEnded("applyPenalty") /\ f.pc = "w_done")
    => /\ OneRowAdded
       /\ row.playerId = p /\ row.severity = psi
       /\ tasks = snap[3] /\ taskLogs = SnapLogs
       /\ \A q \in Players \ {p} : players[q] = SnapPlayers[q] /\ stats[q] = SnapStats[q]
       /\ psi < 5 => /\ row.reason = "missed_task" /\ row.expiresAt = NoExpiry
                     /\ players = SnapPlayers /\ stats = SnapStats
       /\ (psi >= 5 /\ psi <= 9) => /\ row.reason = "missed_task" /\ row.expiresAt = NoExpiry
                                    /\ players = SnapPlayers /\ stats[p] = decayed
       /\ (psi >= 10 /\ psi <= 19) => /\ row.reason = "xp_loss" /\ row.expiresAt = now + Day
                                      /\ stats = SnapStats
                                      /\ players[p] = PlayerRow(SnapPlayers[p].totalXp - 2 * psi)
       /\ psi >= 20 => /\ row.reason = "rank_lock"
                       /\ row.expiresAt = now + (IF psi \div 5 < 30 THEN psi \div 5 ELSE 30) * Day
                       /\ players = SnapPlayers /\ stats = SnapStats

\* applyPenalty has created the lock for a PSI of 200, held to 30 days
C25_Witness ==
  /\ CallEnded("applyPenalty")
  /\ proc[Caller].pc = "w_done"
  /\ proc[Caller].psi = 200
  /\ OneRowAdded
  /\ penalties[Len(penalties)].reason = "rank_lock"
  /\ penalties[Len(penalties)].expiresAt = now + 30 * Day

\* the rank_lock rows of a player
RankLocks(playerId) == {i \in 1..Len(penalties) : penalties[i].playerId = playerId /\ penalties[i].reason = "rank_lock"}

\* C26: isRankLocked(player) is true exactly when the player has a rank_lock
\* row whose expiresAt is later than now: it is true once applyPenalty has
\* run with a PSI of 20 or more, it becomes true by nothing else, it becomes
\* false only by time reaching the expiry of every rank_lock of the player,
\* and it is false then whether or not the rows were cleaned up.
C26_RankLockedExactly ==
  /\ [](\A p \in Players : isRankLocked(p) <=> \E i \in RankLocks(p) : penalties[i].expiresAt # NoExpiry /\ penalties[i].expiresAt > now)
  /\ []((CallEnded("applyPenalty") /\ proc[Caller].pc = "w_done" /\ proc[Caller].psi >= 20) => isRankLocked(proc[Caller].playerId))
  /\ [][\A p \in Players :
          /\ (isRankLocked(p) /\ ~isRankLocked(p)') => (now' > now /\ \A i \in RankLocks(p) : penalties[i].expiresAt <= now')
          /\ (~isRankLocked(p) /\ isRankLocked(p)') => (proc[Caller].pc = "pen_create" /\ proc[Caller].playerId = p /\ proc[Caller].psi >= 20)]_vars

\* the lock of a player has reached its expiry, the row is in the table
\* still, and the player is not locked
C26_Witness ==
  \E p \in Players :
    /\ ~isRankLocked(p)
    /\ \E i \in RankLocks(p) : penalties[i].expiresAt = now
    /\ \E q \in Players \ {p} : isRankLocked(q)

\* the missed logs of the player that were created in the 7 days before now
SnapMissedWindow(playerId) ==
  {i \in 1..Len(SnapLogs) : /\ SnapLogs[i].playerId = playerId
                            /\ SnapLogs[i].status = "missed"
                            /\ SnapLogs[i].createdAt >= now - 7 * Day}

\* C27: applyMissPenalty(player) creates no row and changes nothing exactly
\* when the player has no missed log created in the last 7 days: the PSI is
\* 0 then, and it is 1 or more, with one row created, whenever there is one.
C27_NoMissNoPenalty ==
  LET f == proc[Caller] IN
  (CallEnded("applyMissPenalty") /\ f.pc = "w_done")
    => IF SnapMissedWindow(f.playerId) = {}
       THEN f.psi = 0 /\ db = snap
       ELSE f.psi >= 1 /\ OneRowAdded /\ penalties[Len(penalties)].playerId = f.playerId

\* applyMissPenalty has returned without a penalty for a player whose one
\* missed log is older than 7 days
C27_Witness ==
  /\ CallEnded("applyMissPenalty")
  /\ proc[Caller].pc = "w_done"
  /\ proc[Caller].psi = 0
  /\ db = snap
  /\ \E i \in 1..Len(taskLogs) : /\ taskLogs[i].playerId = proc[Caller].playerId
                                 /\ taskLogs[i].status = "missed"
                                 /\ taskLogs[i].createdAt < now - 7 * Day

\* C28: cleanupExpiredPenalties deletes exactly the rows whose expiresAt is
\* earlier than now, never a row without expiresAt or one that has not
\* expired, returns the number of rows deleted, changes no other table, and
\* leaves the result of isRankLocked of every player as it was.
C28_CleanupExact ==
  LET f == proc[Caller]
      kept == SelectSeq(SnapPenalties, LAMBDA row : row.expiresAt = NoExpiry \/ row.expiresAt >= now) IN
  CallEnded("cleanupExpiredPenalties")
    => /\ f.pc = "w_done"
       /\ penalties = kept
       /\ f.amount = Len(SnapPenalties) - Len(kept)
       /\ <<players, stats, tasks, taskLogs>> = <<snap[1], snap[2], snap[3], snap[4]>>
       /\ \A p \in Players :
            isRankLocked(p) <=> \E i \in 1..Len(SnapPenalties) : /\ SnapPenalties[i].playerId = p
                                                                  /\ SnapPenalties[i].reason = "rank_lock"
                                                                  /\ SnapPenalties[i].expiresAt > now

\* the cleanup has deleted an expired row and has kept a row without expiry
C28_Witness ==
  /\ CallEnded("cleanupExpiredPenalties")
  /\ proc[Caller].amount = 1
  /\ Len(SnapPenalties) = 2
  /\ Len(penalties) = 1
  /\ penalties[1].expiresAt = NoExpiry

\* ------------------------------------------------------------------ properties of calculateRank

\* the rank of a totalXp by the thresholds 1000, 5000, 15000, 40000, 100000
\* and 250000
RankAt(totalXp) ==
  IF totalXp < 1000 THEN "E"
  ELSE IF totalXp < 5000 THEN "D"
  ELSE IF totalXp < 15000 THEN "C"
  ELSE IF totalXp < 40000 THEN "B"
  ELSE IF totalXp < 100000 THEN "A"
  ELSE IF totalXp < 250000 THEN "S"
  ELSE "SS"

\* C29: calculateRank gives every integer totalXp one rank: E below 1000,
\* negative totalXp included, and the next rank from 1000 (D), 5000 (C),
\* 15000 (B), 40000 (A), 100000 (S) and 250000 (SS) on; the rank never falls
\* when totalXp rises and never rises when totalXp falls.
C29_RankByThresholds ==
  LET f == proc[Caller]
      was == SnapPlayers[f.playerId]
      is == players[f.playerId] IN
  (CallEnded("addXp") /\ f.pc = "w_done")
    => /\ \A p \in Players : players[p].rank = RankAt(players[p].totalXp)
       /\ is.rank = calculateRank(is.totalXp)
       /\ is.totalXp >= was.totalXp => RankIndex(is.rank) >= RankIndex(was.rank)
       /\ is.totalXp <= was.totalXp => RankIndex(is.rank) <= RankIndex(was.rank)

\* addXp has taken a player from 249999 (S) to 250000 (SS)
C29_Witness ==
  /\ CallEnded("addXp")
  /\ proc[Caller].pc = "w_done"
  /\ SnapPlayers[proc[Caller].playerId].totalXp = 249999
  /\ SnapPlayers[proc[Caller].playerId].rank = "S"
  /\ players[proc[Caller].playerId].totalXp = 250000
  /\ players[proc[Caller].playerId].rank = "SS"

\* ------------------------------------------------------------------ properties of generateDailyTask

\* the lowest-valued stat of a row, the first of them in the order of
\* VALID_STAT_NAMES when several share the lowest value
LowestFirst(row) ==
  LET i == CHOOSE i \in 1..Len(VALID_STAT_NAMES) :
             /\ \A k \in 1..Len(VALID_STAT_NAMES) : row[VALID_STAT_NAMES[i]] <= row[VALID_STAT_NAMES[k]]
             /\ \A k \in 1..(i - 1) : row[VALID_STAT_NAMES[k]] > row[VALID_STAT_NAMES[i]]
  IN VALID_STAT_NAMES[i]

\* C30: the task generateDailyTask has just created targets the lowest-valued
\* stat of the player, the first in the order physical, intelligence,
\* discipline, charisma, confidence, creativity when several are lowest,
\* whether the quest generator suggested a stat of its own or failed
C30_TargetsWeakest ==
  J.pc = "j_gen_log" => tasks[J.taskId].targetStat = LowestFirst(stats[J.playerId])

\* the quest generator answered (its weekly task, for which it named
\* creativity) for a player whose discipline and confidence are both lowest
C30_Witness ==
  /\ J.pc = "j_gen_log"
  /\ tasks[J.taskId].type = "weekly"
  /\ tasks[J.taskId].targetStat = "discipline"
  /\ stats[J.playerId]["discipline"] = stats[J.playerId]["confidence"]
  /\ \A s \in StatNames : stats[J.playerId]["discipline"] <= stats[J.playerId][s]

\* C31: the task generateDailyTask has just created has the difficulty that
\* calculateDifficultyScaling gives for the rank of the player and the number
\* of its failed or missed logs of the last 21 days (easy from 3 of them on),
\* whatever difficulty the quest generator answered
C31_DifficultyByPolicy ==
  J.pc = "j_gen_log" =>
    tasks[J.taskId].difficulty = calculateDifficultyScaling(RecentFailures(J.playerId), players[J.playerId].rank)

\* ------------------------------------------------------------------ properties of steps 3 and 4 of processPlayerDailyFlow

\* the flow of a player has come past step 4
PastStep4 == J.pc \in {"j_gen_read", "j_gen_task", "j_gen_log", "j_commit"}

\* the logs this run of the flow has marked missed: pending when it began
NewlyMissed ==
  {i \in 1..Len(SnapLogs) : /\ SnapLogs[i].status = "pending"
                            /\ taskLogs[i].status = "missed"
                            /\ taskLogs[i].playerId = job.idx}

C32_WitnessMarked ==
  /\ snap # NoSnap
  /\ PastStep4
  /\ NewlyMissed # {}
  /\ Len(penalties) = Len(SnapPenalties) + 1

\* ------------------------------------------------------------------ properties of applyStatChange

\* the integer nearest to v twentieths, the upper one of two equally near
NearestHalfUp(v) ==
  CHOOSE n \in -1100..1200 : 2 * Unit * n - Unit <= 2 * v /\ 2 * v < 2 * Unit * n + Unit

\* n brought into 0..100
Clamp0To100(n) == IF n < 0 THEN 0 ELSE IF n > 100 THEN 100 ELSE n

DeltaCall == proc[Caller].fn = "applyStatChange" /\ proc[Caller].pc \in {"w_done", "w_error"}

\* C33: a call of applyStatChange that has returned has set every stat named
\* in the changes to the sum of its old value and the delta, rounded to the
\* nearest integer (a half upwards: +0.5 adds 1 and -0.5 changes nothing) and
\* brought into 0..100, and has left the other stats and every other row as
\* they were; for a player without stats it has thrown and changed nothing
C33_ApplyStatChange ==
  DeltaCall =>
    LET f == proc[Caller] IN
    IF f.playerId \in DOMAIN SnapStats
    THEN /\ f.pc = "w_done"
         /\ \A s \in StatNames :
              stats[f.playerId][s] =
                IF s \in f.changes.keys
                THEN Clamp0To100(NearestHalfUp(SnapStats[f.playerId][s] * Unit + f.changes.d[s]))
                ELSE SnapStats[f.playerId][s]
         /\ \A s \in f.changes.keys :
              /\ (f.changes.d[s] = Unit \div 2 /\ SnapStats[f.playerId][s] < 100) => stats[f.playerId][s] = SnapStats[f.playerId][s] + 1
              /\ f.changes.d[s] = -(Unit \div 2) => stats[f.playerId][s] = SnapStats[f.playerId][s]
         /\ \A q \in DOMAIN stats \ {f.playerId} : stats[q] = SnapStats[q]
         /\ <<players, tasks, taskLogs, penalties>> = <<snap[1], snap[3], snap[4], snap[5]>>
    ELSE f.pc = "w_error" /\ db = snap

\* a call has added 0.5 to a discipline of 99 and taken 0.3 from an
\* intelligence of 100: discipline is 100, intelligence still 100
C33_Witness ==
  /\ DeltaCall
  /\ proc[Caller].pc = "w_done"
  /\ proc[Caller].changes.d["discipline"] = Unit \div 2
  /\ SnapStats[proc[Caller].playerId]["discipline"] = 99
  /\ stats[proc[Caller].playerId]["discipline"] = 100
  /\ stats[proc[Caller].playerId]["intelligence"] = 100
  /\ stats[proc[Caller].playerId]["physical"] = SnapStats[proc[Caller].playerId]["physical"]

\* a call for a player without stats has thrown
C33_WitnessNoStats ==
  /\ DeltaCall
  /\ proc[Caller].playerId = NoSuchPlayer
  /\ proc[Caller].pc = "w_error"

\* ------------------------------------------------------------------ properties of calculatePSI

\* the PSI of the window ids with the weight of its log i replaced by w
PsiWith(ids, i, w) == PsiOf(WeightsOf(ids \ {i}) \o <<w>>)

\* C34: the PSI that calculatePSI has returned for a player is not below
\* the PSI of the same window with one of its missed logs taken out, and not
\* below the PSI of the same window with one of its tasks of a lower
\* difficulty: one more missed task in the 7 days, or a harder one, never
\* lowers floor(sum of the weights * min(1 + 0.1 * count, 2.0))
C34_PsiMonotone ==
  CallEnded("calculatePSI") =>
    LET f == proc[Caller]
        window == RecentMissedLogs(f.playerId) IN
    /\ f.psi = PsiOf(WeightsOf(window))
    /\ \A i \in window :
         /\ PsiOf(WeightsOf(window \ {i})) <= f.psi
         /\ \A d \in Difficulties :
              DIFFICULTY_MULTIPLIERS[d] <= DIFFICULTY_MULTIPLIERS[tasks[taskLogs[i].taskId].difficulty]
                => PsiWith(window, i, DIFFICULTY_MULTIPLIERS[d]) <= f.psi

\* calculatePSI has returned for a player with 11 missed tasks in the
\* window, not all of one difficulty, and one older than the window
C34_Witness ==
  /\ CallEnded("calculatePSI")
  /\ Cardinality(RecentMissedLogs(proc[Caller].playerId)) = MaxMissed
  /\ proc[Caller].psi = 2 * SumSeq(WeightsOf(RecentMissedLogs(proc[Caller].playerId)))
  /\ \E i, j \in RecentMissedLogs(proc[Caller].playerId) : tasks[taskLogs[i].taskId].difficulty # tasks[taskLogs[j].taskId].difficulty
  /\ RecentMissedLogs_AllTime(proc[Caller].playerId) # RecentMissedLogs(proc[Caller].playerId)

\* ------------------------------------------------------------------ properties of calculateLevel

\* the levels looked at: above the level of every totalXp of LevelInputs
LevelCap == 200

\* the levels whose calculateXpRequired is within totalXp
AffordedLevels(totalXp) == {l \in 1..LevelCap : calculateXpRequired(l) <= totalXp}

\* C35: the level calculateLevel returns is 1 or more; it is the largest
\* level whose calculateXpRequired is within totalXp when there is one, and
\* 1 when there is none; it is 1 for every totalXp below
\* calculateXpRequired(2), 0 and negative values included; and it is not
\* below the level of any smaller totalXp, whatever ranks lie between
C35_LevelLargestAfforded ==
  CallEnded("calculateLevel") =>
    LET f == proc[Caller] IN
    /\ f.instLevel >= 1
    /\ f.instLevel < LevelCap
    /\ AffordedLevels(f.instXp) # {} =>
          /\ f.instLevel \in AffordedLevels(f.instXp)
          /\ \A l \in AffordedLevels(f.instXp) : l <= f.instLevel
    /\ AffordedLevels(f.instXp) = {} => f.instLevel = 1
    /\ f.instXp < calculateXpRequired(2) => f.instLevel = 1
    /\ f.instLevel = calculateLevel(f.instXp)
    /\ \A y \in LevelInputs : y <= f.instXp => calculateLevel(y) <= f.instLevel

\* calculateLevel has returned for a totalXp at the threshold of rank C,
\* with a level above the one of a totalXp of rank D
C35_Witness ==
  /\ CallEnded("calculateLevel")
  /\ proc[Caller].instXp = 5000
  /\ calculateRank(proc[Caller].instXp) = "C"
  /\ calculateRank(2000) = "D"
  /\ proc[Caller].instLevel > calculateLevel(2000)
  /\ calculateXpRequired(proc[Caller].instLevel) <= 5000

\* calculateLevel has returned 1 for a negative totalXp
C35_WitnessNegative ==
  /\ CallEnded("calculateLevel")
  /\ proc[Caller].instXp < 0
  /\ proc[Caller].instLevel = 1

\* ------------------------------------------------------------------ properties of getRankProgress

\* C36: getRankProgress of the totalXp of every player is between 0 and 100,
\* the totalXp that the xp_loss penalty leaves included; it is 0 at the
\* first totalXp of each rank and 100 for every totalXp of rank SS
C36_ProgressInRange ==
  /\ \A p \in Players : getRankProgress(players[p].totalXp) \in 0..100
  /\ \A r \in {Ranks[i] : i \in 1..Len(Ranks)} : getRankProgress(RANK_XP_THRESHOLDS[r].min) = IF r = "SS" THEN 100 ELSE 0
  /\ \A p \in Players : players[p].rank = "SS" => getRankProgress(players[p].totalXp) = 100

\* ------------------------------------------------------------------ properties of the reward of a task log

\* the request of w has been answered after judgeAndResolveTask resolved a log
Resolved(w) == proc[w].pc = "w_done" /\ proc[w].logId # 0 /\ proc[w].verdict # NoVerdict

\* C37: the reward of a task log is credited at most once: when two calls
\* of judgeAndResolveTask for the same log have both been answered, the
\* totalXp of the player has grown by the xp of one verdict and the stats
\* have the changes of one verdict, not of both
C37_RewardOnce ==
  \A w1, w2 \in Workers :
    (w1 # w2 /\ Resolved(w1) /\ Resolved(w2) /\ proc[w1].logId = proc[w2].logId)
      => LET pl == proc[w1].playerId IN
         /\ players[pl].totalXp \in {proc[w1].amount, proc[w2].amount}
         /\ stats[pl] \in {UpdatedStats(DefaultStats, proc[w1].changes), UpdatedStats(DefaultStats, proc[w2].changes)}

\* the completed logs of a task and a player
CompletedLogsOf(taskId, playerId) ==
  {i \in 1..Len(taskLogs) : taskLogs[i].taskId = taskId /\ taskLogs[i].playerId = playerId /\ taskLogs[i].status = "completed"}

\* C38: a player earns the reward of a task at most once: a task and a
\* player never have two completed logs, however often the player submits
\* for the task before its deadline
C38_OneRewardPerTask ==
  \A t \in 1..Len(tasks) : \A p \in Players : Cardinality(CompletedLogsOf(t, p)) <= 1

\* the job is in no call of judgeAndResolveTask, addXp or applyStatChange
NoResolutionRunning ==
  J.pc \notin {"jr_load", "jr_oracle", "rt_status", "xp_read", "xp_write", "xp_recalc", "sc_read", "sc_write"}

\* C39: a log is completed only together with its reward: once the call
\* that resolved it has ended, also by an error of addXp or of
\* applyStatChange, the player of a completed log has the xp of the verdict
\* (above 0, from a totalXp of 0) and its stat changes (physical above its
\* start of 50, which every success verdict here raises)
C39_CompletedWithReward ==
  NoResolutionRunning =>
    \A i \in 1..Len(taskLogs) :
      taskLogs[i].status = "completed"
        => /\ players[taskLogs[i].playerId].totalXp > 0
           /\ stats[taskLogs[i].playerId]["physical"] > DefaultStats["physical"]

\* ------------------------------------------------------------------ the xp of a resolution

\* the tasks as generateDailyTask leaves them: the base xp is the lower or
\* the upper end of the range of the difficulty
InitReward ==
  \E ev \in [Players -> {"", "evidence A"}], d \in TaskStart, b \in 1..2 :
    /\ now = 0
    /\ players = [p \in Players |-> PlayerRow(0)]
    /\ stats = [p \in Players |-> DefaultStats]
    /\ tasks = [p \in Players |-> [SeedTask EXCEPT !.difficulty = d, !.xpReward = calculateXpReward(d, TASK_TEMPLATES[d][b])]]
    /\ taskLogs = [p \in Players |-> SeedLog(p, ev[p])]
    /\ penalties = <<>>
    /\ proc = [p \in Procs |-> IdleFrame]
    /\ job = IdleJob
    /\ judge = IdleJudge
    /\ calls = 0
    /\ snap = NoSnap

\* the task service called again and again, over tasks of every reward
SpecReward == InitReward /\ [][NextTask]_vars

\* a call that resolved a log has returned with a success
ResolvedWithSuccess ==
  /\ proc[Caller].fn \in {"route", "judgeAndResolveTask", "resolveTask"}
  /\ proc[Caller].pc = "w_done"
  /\ proc[Caller].logId # 0
  /\ proc[Caller].verdict.verdict = "success"

\* C40: on every successful resolution the xp credited to the player is the
\* xp of the verdict, which is the validated xp of the oracle's reply or,
\* where the fallback answered, the table value of the task's difficulty;
\* the xpReward of the task has no part in it.
C40_XpFromVerdict ==
  ResolvedWithSuccess =>
    LET f == proc[Caller]
        task == tasks[f.taskId] IN
    /\ players[f.playerId].totalXp = SnapPlayers[f.playerId].totalXp + f.verdict.xp
    /\ f.fn # "resolveTask" /\ f.oracle # "json" => f.verdict.xp = DEFAULT_XP_BY_DIFFICULTY[task.difficulty]
    /\ f.fn # "resolveTask" /\ f.oracle = "json" =>
         \E o \in OracleSmall : o.kind = "json" /\ o.data.verdict = JStr("success") /\ o.data.xp = JNum(f.verdict.xp * Unit)

\* a request on an extreme task worth 240 xp was judged by the fallback and
\* the player was credited 200
C40_Witness ==
  /\ ResolvedWithSuccess
  /\ proc[Caller].fn = "route"
  /\ proc[Caller].oracle = "error"
  /\ tasks[proc[Caller].taskId].xpReward = 240
  /\ players[proc[Caller].playerId].totalXp = SnapPlayers[proc[Caller].playerId].totalXp + 200

====
